---- MODULE Spec2Model ----
(***************************************************************************)
(* SortingHat-AI: resume parsing, skill canonicalisation, job-match        *)
(* scoring and the recommendation pipeline (parser.py, scoring.py,         *)
(* models.py, pipeline.py, llm.py).                                        *)
(*                                                                         *)
(* Representation.                                                         *)
(*  - A Python str is a sequence of one-character strings, so that         *)
(*    lower(), strip(), substring search and sorting are computed and not  *)
(*    assumed.  The two non-ASCII characters the code names are written    *)
(*    "U+2022" and "U+2023", the backquote "U+0060", the no-break space    *)
(*    "U+00A0".                                                            *)
(*  - A Python set is a set; a list or tuple is a sequence; None is the    *)
(*    record None and a present optional value x is Some(x).               *)
(*  - A percentage with two decimals is the integer number of hundredths   *)
(*    (66.67 is 6667, 100.0 is 10000).                                     *)
(*  - A call either returns or raises: its outcome is a record with the    *)
(*    field exc ("None" when it returned) and the returned value.          *)
(***************************************************************************)
EXTENDS Integers, Sequences, FiniteSets, TLC

VARIABLES
  phase,     \* "new" before ResumePipeline(...), "ready" after it returned, "failed" when it raised, "done" after a call
  pipeline,  \* the ResumePipeline object: job_description, use_llm, llm
  scorer,    \* the JobMatchScorer object: job_description, required_skills, optional_skills
  breakdown, \* a MatchBreakdown object: required_coverage, optional_coverage, experience_alignment
  out,       \* the last call: its name, its arguments and what it returned or raised
  requests   \* the advisory requests the last call issued, in order

vars == <<phase, pipeline, scorer, breakdown, out, requests>>

----------------------------------------------------------------------------
(* Python values *)

None == [isNone |-> TRUE]
Some(x) == [isNone |-> FALSE, v |-> x]

\* truth value of an optional list or of a list: None and the empty list are falsy
Truthy(opt) == IF opt.isNone THEN FALSE ELSE Len(opt.v) > 0

Uppers == <<"A","B","C","D","E","F","G","H","I","J","K","L","M","N","O","P","Q","R","S","T","U","V","W","X","Y","Z">>
Lowers == <<"a","b","c","d","e","f","g","h","i","j","k","l","m","n","o","p","q","r","s","t","u","v","w","x","y","z">>

\* printable ASCII in code point order, code points 32..126
Ascii ==
  <<
     " ", "!", "\"", "#", "$", "%", "&", "'", "(", ")", "*", "+", ",", "-", ".", "/",
     "0", "1", "2", "3", "4", "5", "6", "7", "8", "9", ":", ";", "<", "=", ">", "?",
     "@", "A", "B", "C", "D", "E", "F", "G", "H", "I", "J", "K", "L", "M", "N", "O",
     "P", "Q", "R", "S", "T", "U", "V", "W", "X", "Y", "Z", "[", "\\", "]", "^", "_",
     "U+0060", "a", "b", "c", "d", "e", "f", "g", "h", "i", "j", "k", "l", "m", "n", "o",
     "p", "q", "r", "s", "t", "u", "v", "w", "x", "y", "z", "{", "|", "}", "~"
  >>

Letters == {Uppers[i] : i \in 1..26} \cup {Lowers[i] : i \in 1..26}

\* characters str.strip() removes when called without argument: those a text holds here,
\* the no-break space U+00A0 among them
Whitespace == {" ", "\t", "\n", "\r", "U+00A0"}

\* the code point of each character
CodePoint ==
  [c \in {Ascii[i] : i \in 1..Len(Ascii)} |-> 31 + (CHOOSE i \in 1..Len(Ascii) : Ascii[i] = c)]
    @@ ("\t" :> 9) @@ ("\n" :> 10) @@ ("\r" :> 13) @@ ("U+00A0" :> 160) @@ ("U+2022" :> 8226) @@ ("U+2023" :> 8227)

ord(c) == CodePoint[c]

ToLower == [c \in {Uppers[i] : i \in 1..26} |-> Lowers[CHOOSE i \in 1..26 : Uppers[i] = c]]
ToUpper == [c \in {Lowers[i] : i \in 1..26} |-> Uppers[CHOOSE i \in 1..26 : Lowers[i] = c]]

LowerChar(c) == IF c \in DOMAIN ToLower THEN ToLower[c] ELSE c

UpperChar(c) == IF c \in DOMAIN ToUpper THEN ToUpper[c] ELSE c

lower(s) == [i \in 1..Len(s) |-> LowerChar(s[i])]

\* the first index from i upwards, and the last from i downwards, whose character is kept
RECURSIVE first_kept(_, _, _)
first_kept(s, chars, i) ==
  IF i > Len(s) \/ s[i] \notin chars THEN i ELSE first_kept(s, chars, i + 1)

RECURSIVE last_kept(_, _, _)
last_kept(s, chars, i) ==
  IF i < 1 \/ s[i] \notin chars THEN i ELSE last_kept(s, chars, i - 1)

\* s.lstrip(chars): drop the leading characters that are in chars
lstrip_chars(s, chars) == SubSeq(s, first_kept(s, chars, 1), Len(s))

\* s.strip(chars): drop the leading and the trailing characters that are in chars
strip_chars(s, chars) == SubSeq(s, first_kept(s, chars, 1), last_kept(s, chars, Len(s)))

strip(s) == strip_chars(s, Whitespace)

\* sub in s
contains(s, sub) ==
  \E i \in 0..(Len(s) - Len(sub)) : SubSeq(s, i + 1, i + Len(sub)) = sub

\* a < b for two str: the order sorted() uses
str_lt(a, b) ==
  \E k \in 1..(Len(a) + 1) :
    /\ k <= Len(b)
    /\ \A j \in 1..(k - 1) : a[j] = b[j]
    /\ \/ k = Len(a) + 1
       \/ ord(a[k]) < ord(b[k])

RECURSIVE sorted(_)
sorted(S) ==
  IF S = {} THEN <<>>
  ELSE LET m == CHOOSE x \in S : \A y \in S \ {x} : str_lt(x, y)
       IN  <<m>> \o sorted(S \ {m})

\* str.title(): a letter is upper-cased after a non-letter and lower-cased after a letter
title(s) ==
  [i \in 1..Len(s) |->
     IF i = 1 \/ s[i - 1] \notin Letters THEN UpperChar(s[i]) ELSE LowerChar(s[i])]

RECURSIVE join(_, _)
join(sep, parts) ==
  IF Len(parts) = 0 THEN <<>>
  ELSE IF Len(parts) = 1 THEN parts[1]
  ELSE parts[1] \o sep \o join(sep, Tail(parts))

\* str.splitlines() for texts whose only line boundary is "\n"
RECURSIVE splitlines(_)
splitlines(s) ==
  IF s = <<>> THEN <<>>
  ELSE LET nl == first_kept(s, {c \in DOMAIN CodePoint : c # "\n"}, 1)
       IN  IF nl > Len(s) THEN <<s>>
           ELSE <<SubSeq(s, 1, nl - 1)>> \o splitlines(SubSeq(s, nl + 1, Len(s)))

Range(f) == {f[i] : i \in DOMAIN f}

\* round(x, 0) of the rational num/den (den > 0), ties to the even integer
round_half_even(num, den) ==
  LET q == num \div den
      r == num % den
  IN  IF 2 * r < den THEN q
      ELSE IF 2 * r > den THEN q + 1
      ELSE IF q % 2 = 0 THEN q ELSE q + 1

----------------------------------------------------------------------------
(* scoring.py *)

SKILL_SYNONYMS ==
  <<
    <<<<"j","a","v","a","s","c","r","i","p","t">>,
      {<<"j","s">>, <<"e","c","m","a","s","c","r","i","p","t">>, <<"e","s","6">>, <<"e","s","2","0","1","5">>}>>,
    <<<<"t","y","p","e","s","c","r","i","p","t">>,
      {<<"t","s">>}>>,
    <<<<"p","y","t","h","o","n">>,
      {<<"p","y">>, <<"p","y","t","h","o","n","3">>, <<"c","p","y","t","h","o","n">>}>>,
    <<<<"k","u","b","e","r","n","e","t","e","s">>,
      {<<"k","8","s">>, <<"k","u","b","e">>}>>,
    <<<<"m","a","c","h","i","n","e"," ","l","e","a","r","n","i","n","g">>,
      {<<"m","l">>}>>,
    <<<<"d","e","e","p"," ","l","e","a","r","n","i","n","g">>,
      {<<"d","l">>}>>,
    <<<<"n","a","t","u","r","a","l"," ","l","a","n","g","u","a","g","e"," ","p","r","o","c","e","s","s","i","n","g">>,
      {<<"n","l","p">>}>>,
    <<<<"a","r","t","i","f","i","c","i","a","l"," ","i","n","t","e","l","l","i","g","e","n","c","e">>,
      {<<"a","i">>}>>,
    <<<<"a","m","a","z","o","n"," ","w","e","b"," ","s","e","r","v","i","c","e","s">>,
      {<<"a","w","s">>}>>,
    <<<<"g","o","o","g","l","e"," ","c","l","o","u","d"," ","p","l","a","t","f","o","r","m">>,
      {<<"g","c","p">>, <<"g","o","o","g","l","e"," ","c","l","o","u","d">>}>>,
    <<<<"m","i","c","r","o","s","o","f","t"," ","a","z","u","r","e">>,
      {<<"a","z","u","r","e">>}>>,
    <<<<"r","e","a","c","t">>,
      {<<"r","e","a","c","t","j","s">>, <<"r","e","a","c","t",".","j","s">>}>>,
    <<<<"a","n","g","u","l","a","r">>,
      {<<"a","n","g","u","l","a","r","j","s">>, <<"a","n","g","u","l","a","r",".","j","s">>}>>,
    <<<<"v","u","e">>,
      {<<"v","u","e","j","s">>, <<"v","u","e",".","j","s">>}>>,
    <<<<"n","o","d","e">>,
      {<<"n","o","d","e","j","s">>, <<"n","o","d","e",".","j","s">>}>>,
    <<<<"p","o","s","t","g","r","e","s">>,
      {<<"p","o","s","t","g","r","e","s","q","l">>, <<"p","s","q","l">>}>>,
    <<<<"m","y","s","q","l">>,
      {<<"m","a","r","i","a","d","b">>}>>,
    <<<<"m","o","n","g","o","d","b">>,
      {<<"m","o","n","g","o">>}>>,
    <<<<"d","o","c","k","e","r">>,
      {<<"c","o","n","t","a","i","n","e","r","i","z","a","t","i","o","n">>}>>,
    <<<<"c","i","/","c","d">>,
      {<<"c","i","c","d">>, <<"c","o","n","t","i","n","u","o","u","s"," ","i","n","t","e","g","r","a","t","i","o","n">>, <<"c","o","n","t","i","n","u","o","u","s"," ","d","e","p","l","o","y","m","e","n","t">>}>>,
    <<<<"t","e","n","s","o","r","f","l","o","w">>,
      {<<"t","f">>}>>,
    <<<<"p","y","t","o","r","c","h">>,
      {<<"t","o","r","c","h">>}>>,
    <<<<"c","+","+">>,
      {<<"c","p","p">>}>>,
    <<<<"c","#">>,
      {<<"c","s","h","a","r","p">>, <<"c"," ","s","h","a","r","p">>}>>,
    <<<<"o","b","j","e","c","t","i","v","e","-","c">>,
      {<<"o","b","j","c">>}>>,
    <<<<"r","u","b","y"," ","o","n"," ","r","a","i","l","s">>,
      {<<"r","a","i","l","s">>, <<"r","o","r">>}>>,
    <<<<"r","e","s","t">>,
      {<<"r","e","s","t","f","u","l">>, <<"r","e","s","t"," ","a","p","i">>, <<"r","e","s","t","f","u","l"," ","a","p","i">>}>>,
    <<<<"g","r","a","p","h","q","l">>,
      {<<"g","q","l">>}>>,
    <<<<"h","t","m","l">>,
      {<<"h","t","m","l","5">>}>>,
    <<<<"c","s","s">>,
      {<<"c","s","s","3">>}>>,
    <<<<"s","a","s","s">>,
      {<<"s","c","s","s">>}>>
  >>

\* the reverse lookup alias -> canonical, built entry by entry in table order;
\* a later assignment to the same key replaces the earlier one
RECURSIVE BuildReverse(_)
BuildReverse(k) ==
  IF k = 0 THEN <<>>
  ELSE LET canon   == SKILL_SYNONYMS[k][1]
           aliases == SKILL_SYNONYMS[k][2]
           prev    == BuildReverse(k - 1)
       IN  [a \in aliases |-> canon] @@ (canon :> canon) @@ prev

_SYNONYM_REVERSE == BuildReverse(Len(SKILL_SYNONYMS))

_JD_STOPWORDS ==
  {
    <<"t","h","e">>,
    <<"a","n","d">>,
    <<"f","o","r">>,
    <<"w","i","t","h">>,
    <<"o","u","r">>,
    <<"y","o","u">>,
    <<"y","o","u","r">>,
    <<"a","r","e">>,
    <<"w","i","l","l">>,
    <<"h","a","v","e">>,
    <<"h","a","s">>,
    <<"t","h","i","s">>,
    <<"t","h","a","t">>,
    <<"f","r","o","m">>,
    <<"i","n","t","o">>,
    <<"n","o","t">>,
    <<"b","u","t">>,
    <<"a","l","s","o">>,
    <<"w","h","o">>,
    <<"c","a","n">>,
    <<"a","l","l">>,
    <<"b","e","e","n">>,
    <<"w","e","r","e">>,
    <<"b","e","i","n","g">>,
    <<"t","h","e","i","r">>,
    <<"i","t","s">>,
    <<"m","o","r","e">>,
    <<"a","b","o","u","t">>,
    <<"t","h","a","n">>,
    <<"t","h","e","m">>,
    <<"t","h","e","s","e">>,
    <<"t","h","o","s","e">>,
    <<"t","h","e","n">>,
    <<"w","h","e","n">>,
    <<"h","o","w">>,
    <<"w","h","a","t">>,
    <<"w","h","i","c","h">>,
    <<"w","h","e","r","e">>,
    <<"w","o","u","l","d">>,
    <<"s","h","o","u","l","d">>,
    <<"c","o","u","l","d">>,
    <<"m","a","y">>,
    <<"m","i","g","h","t">>,
    <<"m","u","s","t">>,
    <<"s","h","a","l","l">>,
    <<"n","e","e","d">>,
    <<"w","a","n","t">>,
    <<"l","i","k","e">>,
    <<"j","u","s","t">>,
    <<"u","s","e">>,
    <<"u","s","i","n","g">>,
    <<"u","s","e","d">>,
    <<"w","o","r","k">>,
    <<"t","e","a","m">>,
    <<"r","o","l","e">>,
    <<"e","x","p","e","r","i","e","n","c","e">>,
    <<"y","e","a","r","s">>,
    <<"a","b","i","l","i","t","y">>,
    <<"s","t","r","o","n","g">>,
    <<"k","n","o","w","l","e","d","g","e">>,
    <<"u","n","d","e","r","s","t","a","n","d","i","n","g">>,
    <<"w","o","r","k","i","n","g">>,
    <<"l","o","o","k","i","n","g">>,
    <<"s","e","e","k","i","n","g">>,
    <<"r","e","q","u","i","r","e","d">>,
    <<"p","r","e","f","e","r","r","e","d">>,
    <<"p","l","u","s">>,
    <<"n","i","c","e">>,
    <<"i","n","c","l","u","d","i","n","g">>,
    <<"e","t","c">>,
    <<"s","u","c","h">>,
    <<"w","e","l","l">>,
    <<"g","o","o","d">>,
    <<"g","r","e","a","t">>,
    <<"e","x","c","e","l","l","e","n","t">>,
    <<"p","r","o","f","i","c","i","e","n","t">>
  }

\* canonicalize_skill with the lookup in the synonym table left out
canonicalize_no_synonyms(skill) == strip(lower(skill))

\* canonicalize_skill with .strip() left out
canonicalize_unstripped(skill) ==
  LET low == lower(skill)
  IN  IF low \in DOMAIN _SYNONYM_REVERSE THEN _SYNONYM_REVERSE[low] ELSE low

canonicalize_skill(skill) ==
  LET low == strip(lower(skill))
  IN  IF low \in DOMAIN _SYNONYM_REVERSE THEN _SYNONYM_REVERSE[low] ELSE low

\* the aliases of a canonical term: SKILL_SYNONYMS[skill] when skill is a key
SynonymsOf(skill) ==
  IF \E k \in 1..Len(SKILL_SYNONYMS) : SKILL_SYNONYMS[k][1] = skill
  THEN SKILL_SYNONYMS[CHOOSE k \in 1..Len(SKILL_SYNONYMS) : SKILL_SYNONYMS[k][1] = skill][2]
  ELSE {}

\* a Python float that is the quotient of two lengths, or the exception the division raised
truediv(a, b) ==
  IF b = 0 THEN [exc |-> "ZeroDivisionError", num |-> 0, den |-> 1]
  ELSE [exc |-> "None", num |-> a, den |-> b]

Float0 == [exc |-> "None", num |-> 0, den |-> 1]

\* round(x * 100, 2), in hundredths
round_pct(x) == round_half_even(10000 * x.num, x.den)

\* overall_score with the weights 0.5 / 0.3 / 0.2
overall_score_reweighted(self) ==
  round_half_even(
    (self.required_coverage * 5)
    + (self.optional_coverage * 3)
    + (self.experience_alignment * 2),
    10)

\* MatchBreakdown.overall_score: round(rc * 0.6 + oc * 0.2 + ea * 0.2, 2), in hundredths
overall_score(self) ==
  round_half_even(
    (self.required_coverage * 6)
    + (self.optional_coverage * 2)
    + (self.experience_alignment * 2),
    10)

MatchBreakdown(required_coverage, optional_coverage, experience_alignment) ==
  [required_coverage    |-> required_coverage,
   optional_coverage    |-> optional_coverage,
   experience_alignment |-> experience_alignment]

\* re.findall(r"[A-Za-z+#./]+", text): the maximal runs of these characters, left to right
TokenChars == Letters \cup {"+", "#", ".", "/"}

RECURSIVE findall_tokens(_, _, _)
findall_tokens(text, i, cur) ==
  IF i > Len(text) THEN (IF cur = <<>> THEN <<>> ELSE <<cur>>)
  ELSE IF text[i] \in TokenChars THEN findall_tokens(text, i + 1, Append(cur, text[i]))
  ELSE (IF cur = <<>> THEN <<>> ELSE <<cur>>) \o findall_tokens(text, i + 1, <<>>)

_extract_skills(text) ==
  LET tokens   == findall_tokens(text, 1, <<>>)
      lowered  == {strip_chars(lower(tokens[i]), {"."}) : i \in 1..Len(tokens)}
  IN  {low \in lowered : Len(low) > 1 /\ low \notin _JD_STOPWORDS}

_normalize(items) ==
  IF ~Truthy(items) THEN {}
  ELSE {strip(lower(items.v[i])) : i \in {j \in 1..Len(items.v) : strip(items.v[j]) # <<>>}}

\* JobMatchScorer.__init__
JobMatchScorer(job_description, required_skills, optional_skills) ==
  [job_description |-> job_description,
   required_skills |-> IF Truthy(required_skills) THEN _normalize(required_skills)
                       ELSE _extract_skills(job_description),
   optional_skills |-> _normalize(optional_skills)]

(* models.py *)

\* _clean: value.strip() if value else ""
_clean(value) == IF value = <<>> THEN <<>> ELSE strip(value)

ContactInfo(name, email, phone, location) ==
  [name |-> name, email |-> email, phone |-> phone, location |-> location]

\* a or b for two str
str_or(a, b) == IF a # <<>> THEN a ELSE b

\* merge taking other's values as they are
merge_other_as_given(self, other) ==
  [value |-> ContactInfo(str_or(_clean(self.name), other.name),
                         str_or(_clean(self.email), other.email),
                         str_or(_clean(self.phone), other.phone),
                         str_or(_clean(self.location), other.location)),
   self  |-> self,
   other |-> other]

\* ContactInfo.merge: the instance returned, and self and other as the call leaves them
\* (it reads their fields and assigns none)
merge(self, other) ==
  [value |-> ContactInfo(str_or(_clean(self.name), _clean(other.name)),
                         str_or(_clean(self.email), _clean(other.email)),
                         str_or(_clean(self.phone), _clean(other.phone)),
                         str_or(_clean(self.location), _clean(other.location))),
   self  |-> self,
   other |-> other]

Education(institution, degree, graduation) ==
  [institution |-> institution, degree |-> degree, graduation |-> graduation]

\* CandidateProfile(summary=..., skills=..., experiences=...), the other fields being
\* the defaults
CandidateProfile(summary, skills, experiences) ==
  [contact |-> ContactInfo(<<>>, <<>>, <<>>, <<>>),
   summary |-> summary, skills |-> skills, experiences |-> experiences,
   education |-> <<>>, certifications |-> <<>>, achievements |-> <<>>]

\* Experience(title=..., company=..., description=...), duration and tools being the
\* defaults
Experience(title_, company, description) ==
  [title |-> title_, company |-> company, description |-> description,
   duration |-> <<>>, tools |-> <<>>]

\* normalized_skills without .lower()
normalized_skills_unlowered(self) ==
  sorted({strip(self.skills[i]) : i \in {j \in 1..Len(self.skills) : strip(self.skills[j]) # <<>>}})

normalized_skills(self) ==
  sorted({strip(lower(self.skills[i])) : i \in {j \in 1..Len(self.skills) : strip(self.skills[j]) # <<>>}})

(* scoring.py, continued *)

\* the spellings of one target skill that are searched for in an experience entry
forms(self, skill) ==
  {skill} \cup SynonymsOf(skill)
          \cup {s \in self.required_skills : canonicalize_skill(s) = skill}

\* found_skills looking at entry k alone
found_skills_last_entry(self, profile, target_skills, k) ==
  IF k = 0 THEN {}
  ELSE LET exp == profile.experiences[k]
           combined_text == lower(join(<<" ">>, <<exp.title, exp.company, exp.description>>))
       IN  {skill \in target_skills :
              \E form \in forms(self, skill) : contains(combined_text, form)}

\* found_skills after the entries 1..k of profile.experiences
RECURSIVE found_skills(_, _, _, _)
found_skills(self, profile, target_skills, k) ==
  IF k = 0 THEN {}
  ELSE LET exp == profile.experiences[k]
           combined_text == lower(join(<<" ">>, <<exp.title, exp.company, exp.description>>))
       IN  found_skills(self, profile, target_skills, k - 1)
             \cup {skill \in target_skills :
                     \E form \in forms(self, skill) : contains(combined_text, form)}

\* _score_experience without the test for an empty target set
_score_experience_unguarded(self, profile, target_skills) ==
  IF Len(profile.experiences) = 0 THEN Float0
  ELSE truediv(Cardinality(found_skills(self, profile, target_skills, Len(profile.experiences))),
               Cardinality(target_skills))

_score_experience(self, profile, target_skills) ==
  IF Len(profile.experiences) = 0 \/ target_skills = {} THEN Float0
  ELSE truediv(Cardinality(found_skills(self, profile, target_skills, Len(profile.experiences))),
               Cardinality(target_skills))
\* score counting an empty optional set as fully covered
score_empty_optional_covered(self, profile) ==
  LET candidate_skills   == {canonicalize_skill(s) : s \in Range(normalized_skills(profile))}
      required_canonical == {canonicalize_skill(s) : s \in self.required_skills}
      optional_canonical == {canonicalize_skill(s) : s \in self.optional_skills}
      required_hits == candidate_skills \cap required_canonical
      optional_hits == candidate_skills \cap optional_canonical
      required_coverage ==
        IF required_canonical # {}
        THEN truediv(Cardinality(required_hits), Cardinality(required_canonical)) ELSE Float0
      optional_coverage ==
        IF optional_canonical # {}
        THEN truediv(Cardinality(optional_hits), Cardinality(optional_canonical)) ELSE truediv(1, 1)
      experience_alignment == _score_experience(self, profile, required_canonical)
      raised == {x.exc : x \in {required_coverage, optional_coverage, experience_alignment}} \ {"None"}
  IN  IF raised # {}
      THEN [exc |-> CHOOSE e \in raised : TRUE, value |-> MatchBreakdown(0, 0, 0)]
      ELSE [exc |-> "None",
            value |-> MatchBreakdown(round_pct(required_coverage),
                                     round_pct(optional_coverage),
                                     round_pct(experience_alignment))]

\* JobMatchScorer.score: the MatchBreakdown it returns, or the exception it raises
score(self, profile) ==
  LET candidate_skills   == {canonicalize_skill(s) : s \in Range(normalized_skills(profile))}
      required_canonical == {canonicalize_skill(s) : s \in self.required_skills}
      optional_canonical == {canonicalize_skill(s) : s \in self.optional_skills}
      required_hits == candidate_skills \cap required_canonical
      optional_hits == candidate_skills \cap optional_canonical
      required_coverage ==
        IF required_canonical # {}
        THEN truediv(Cardinality(required_hits), Cardinality(required_canonical)) ELSE Float0
      optional_coverage ==
        IF optional_canonical # {}
        THEN truediv(Cardinality(optional_hits), Cardinality(optional_canonical)) ELSE Float0
      experience_alignment == _score_experience(self, profile, required_canonical)
      raised == {x.exc : x \in {required_coverage, optional_coverage, experience_alignment}} \ {"None"}
  IN  IF raised # {}
      THEN [exc |-> CHOOSE e \in raised : TRUE, value |-> MatchBreakdown(0, 0, 0)]
      ELSE [exc |-> "None",
            value |-> MatchBreakdown(round_pct(required_coverage),
                                     round_pct(optional_coverage),
                                     round_pct(experience_alignment))]

\* missing_required with the required skills not canonicalized
missing_required_raw(self, profile) ==
  LET candidate_skills == {canonicalize_skill(s) : s \in Range(normalized_skills(profile))}
  IN  self.required_skills \ candidate_skills

missing_required(self, profile) ==
  LET candidate_skills   == {canonicalize_skill(s) : s \in Range(normalized_skills(profile))}
      required_canonical == {canonicalize_skill(s) : s \in self.required_skills}
  IN  required_canonical \ candidate_skills

missing_optional(self, profile) ==
  LET candidate_skills   == {canonicalize_skill(s) : s \in Range(normalized_skills(profile))}
      optional_canonical == {canonicalize_skill(s) : s \in self.optional_skills}
  IN  optional_canonical \ candidate_skills

----------------------------------------------------------------------------
(* llm.py *)

\* the base class of each exception class that can occur ("" at the root)
BaseOf ==
  [c \in {"Exception", "OSError", "ConnectionError", "URLError", "HTTPError", "TimeoutError",
          "ValueError", "JSONDecodeError", "AttributeError", "TypeError",
          "ArithmeticError", "ZeroDivisionError"} |->
     CASE c = "Exception"         -> ""
       [] c = "OSError"           -> "Exception"
       [] c = "ConnectionError"   -> "OSError"
       [] c = "URLError"          -> "OSError"
       [] c = "HTTPError"         -> "URLError"
       [] c = "TimeoutError"      -> "OSError"
       [] c = "ValueError"        -> "Exception"
       [] c = "JSONDecodeError"   -> "ValueError"
       [] c = "AttributeError"    -> "Exception"
       [] c = "TypeError"         -> "Exception"
       [] c = "ArithmeticError"   -> "Exception"
       [] c = "ZeroDivisionError" -> "ArithmeticError"]

RECURSIVE isinstance(_, _)
\* does an except clause naming classes catch an exception of class exc
isinstance(exc, classes) ==
  IF exc = "" \/ exc = "None" THEN FALSE
  ELSE exc \in classes \/ isinstance(BaseOf[exc], classes)

(* What the advisory service does with one request is not in the hands of  *)
(* the program: a reply is one of                                          *)
(*   refused       the connection is refused (urlopen raises URLError)     *)
(*   timeout       no connection within the timeout (URLError)             *)
(*   read_timeout  the body does not arrive in time (socket.timeout)       *)
(*   http_error    an HTTP error status (HTTPError)                        *)
(*   not_json      status 200, the body is not JSON                        *)
(*   not_object    status 200, the body is JSON but not an object          *)
(*   object        status 200, a JSON object; text is its "response" entry *)
(*                 (Some(str), Some(<<>>) when the key is absent, None     *)
(*                 when it is null)                                        *)
Reply(kind, text) == [kind |-> kind, text |-> text]

\* urllib.request.urlopen and resp.read(): the exception raised, if any
urlopen(reply) ==
  CASE reply.kind = "refused"      -> "URLError"
    [] reply.kind = "timeout"      -> "URLError"
    [] reply.kind = "read_timeout" -> "TimeoutError"
    [] reply.kind = "http_error"   -> "HTTPError"
    [] OTHER                       -> "None"

\* OllamaClient.is_available
\* every exception urlopen raises here is an OSError, so none escapes the except clause
is_available(reply) == ~isinstance(urlopen(reply), {"URLError", "OSError"})

\* OllamaClient.generate: the LLMResponse text, or the exception raised
generate(reply) ==
  LET inner ==
        IF urlopen(reply) # "None" THEN urlopen(reply)
        ELSE IF reply.kind = "not_json" THEN "JSONDecodeError"
        ELSE IF reply.kind = "not_object" THEN "AttributeError"
        ELSE "None"
  IN  IF inner = "None" THEN [exc |-> "None", text |-> reply.text]
      ELSE IF isinstance(inner, {"URLError", "OSError"})
           THEN [exc |-> "ConnectionError", text |-> None]
      ELSE [exc |-> inner, text |-> None]

\* OllamaClient.enhance_recommendations
enhance_recommendations(reply) == generate(reply)

(* Reply texts that are JSON documents, and json.loads on them.  A parsed   *)
(* document is a record: isdict tells whether it is an object, and         *)
(* required / optional are the entries under these keys, None when the key *)
(* is absent.  The code tests an entry for truth and iterates over it, so   *)
(* an entry that is a string is held as the sequence of its characters.    *)

\* {"required": ["Python", "k8s"], "optional": ["AWS"]}
JSON_BOTH ==
  <<"{","\"","r","e","q","u","i","r","e","d","\"",":"," ","[","\"","P","y","t",
    "h","o","n","\"",","," ","\"","k","8","s","\"","]",","," ","\"","o","p","t",
    "i","o","n","a","l","\"",":"," ","[","\"","A","W","S","\"","]","}">>

\* {"required": ["Go"]}
JSON_REQUIRED_ONLY ==
  <<"{","\"","r","e","q","u","i","r","e","d","\"",":"," ","[","\"","G","o","\"",
    "]","}">>

\* {"optional": ["AWS"]}
JSON_OPTIONAL_ONLY ==
  <<"{","\"","o","p","t","i","o","n","a","l","\"",":"," ","[","\"","A","W","S",
    "\"","]","}">>

\* ["Python"]
JSON_LIST ==
  <<"[","\"","P","y","t","h","o","n","\"","]">>

\* {"required": "Go"}
JSON_REQUIRED_STRING ==
  <<"{","\"","r","e","q","u","i","r","e","d","\"",":"," ","\"","G","o","\"","}">>

Parsed(isdict, required, optional) ==
  [exc |-> "None", isdict |-> isdict, required |-> required, optional |-> optional]

\* json.loads(text): every text that is not one of the documents above fails to parse
json_loads(text) ==
  IF text.isNone THEN [exc |-> "TypeError", isdict |-> FALSE, required |-> None, optional |-> None]
  ELSE CASE text.v = JSON_BOTH ->
              Parsed(TRUE, Some(<<<<"P","y","t","h","o","n">>, <<"k","8","s">>>>),
                           Some(<<<<"A","W","S">>>>))
         [] text.v = JSON_REQUIRED_ONLY ->
              Parsed(TRUE, Some(<<<<"G","o">>>>), None)
         [] text.v = JSON_OPTIONAL_ONLY ->
              Parsed(TRUE, None, Some(<<<<"A","W","S">>>>))
         [] text.v = JSON_LIST ->
              Parsed(FALSE, None, None)
         [] text.v = JSON_REQUIRED_STRING ->
              Parsed(TRUE, Some(<<<<"G">>, <<"o">>>>), None)
         [] OTHER ->
              [exc |-> "JSONDecodeError", isdict |-> FALSE, required |-> None, optional |-> None]

\* dict.get(key, []) on an entry of a parsed object
get_or_empty(entry) == IF entry.isNone THEN <<>> ELSE entry.v
\* OllamaClient.extract_skills_from_jd: the two lists, or the exception raised
extract_skills_from_jd(reply) ==
  LET response == generate(reply)
      NoSkills == [exc |-> "None", required |-> <<>>, optional |-> <<>>]
  IN  IF response.exc # "None"
      THEN [exc |-> response.exc, required |-> <<>>, optional |-> <<>>]
      ELSE LET result == json_loads(response.text)
               inner  == IF result.exc # "None" THEN result.exc
                         ELSE IF ~result.isdict THEN "AttributeError"
                         ELSE "None"
           IN  IF inner = "None"
               THEN [exc |-> "None",
                     required |-> get_or_empty(result.required),
                     optional |-> get_or_empty(result.optional)]
               ELSE IF isinstance(inner, {"JSONDecodeError", "AttributeError"})
               THEN NoSkills
               ELSE [exc |-> inner, required |-> <<>>, optional |-> <<>>]

----------------------------------------------------------------------------
(* parser.py *)

\* canonical section name and its header aliases, in the order of the dict
SECTION_ALIASES ==
  << <<"skills", <<<<"s","k","i","l","l","s">>, <<"t","e","c","h","n","o","l","o","g","i","e","s">>, <<"t","e","c","h","n","i","c","a","l"," ","s","k","i","l","l","s">>, <<"c","o","r","e"," ","c","o","m","p","e","t","e","n","c","i","e","s">>, <<"t","e","c","h"," ","s","t","a","c","k">>>>>>,
     <<"experience", <<<<"e","x","p","e","r","i","e","n","c","e">>, <<"w","o","r","k"," ","e","x","p","e","r","i","e","n","c","e">>, <<"p","r","o","f","e","s","s","i","o","n","a","l"," ","e","x","p","e","r","i","e","n","c","e">>, <<"w","o","r","k"," ","h","i","s","t","o","r","y">>,
                       <<"p","r","o","f","e","s","s","i","o","n","a","l"," ","b","a","c","k","g","r","o","u","n","d">>, <<"e","m","p","l","o","y","m","e","n","t"," ","h","i","s","t","o","r","y">>, <<"e","m","p","l","o","y","m","e","n","t">>>>>>,
     <<"education", <<<<"e","d","u","c","a","t","i","o","n">>, <<"a","c","a","d","e","m","i","c"," ","b","a","c","k","g","r","o","u","n","d">>, <<"q","u","a","l","i","f","i","c","a","t","i","o","n","s">>>>>>,
     <<"summary", <<<<"s","u","m","m","a","r","y">>, <<"o","b","j","e","c","t","i","v","e">>, <<"p","r","o","f","i","l","e">>, <<"a","b","o","u","t"," ","m","e">>, <<"p","r","o","f","e","s","s","i","o","n","a","l"," ","s","u","m","m","a","r","y">>>>>>,
     <<"achievements", <<<<"a","c","h","i","e","v","e","m","e","n","t","s">>, <<"a","c","c","o","m","p","l","i","s","h","m","e","n","t","s">>, <<"a","w","a","r","d","s">>, <<"h","o","n","o","r","s">>>>>>,
     <<"certifications", <<<<"c","e","r","t","i","f","i","c","a","t","i","o","n","s">>, <<"c","e","r","t","i","f","i","c","a","t","e","s">>, <<"l","i","c","e","n","s","e","s">>, <<"c","r","e","d","e","n","t","i","a","l","s">>>>>> >>

\* the items <<alias, canonical>> of the flat lookup after the first k sections, in
\* insertion order
RECURSIVE BuildLookup(_)
BuildLookup(k) ==
  IF k = 0 THEN <<>>
  ELSE BuildLookup(k - 1)
         \o [i \in 1..Len(SECTION_ALIASES[k][2]) |->
               <<SECTION_ALIASES[k][2][i], SECTION_ALIASES[k][1]>>]

_ALIAS_LOOKUP == BuildLookup(Len(SECTION_ALIASES))

ROLE_KEYWORDS ==
  <<<<"e","n","g","i","n","e","e","r">>, <<"m","a","n","a","g","e","r">>, <<"d","e","v","e","l","o","p","e","r">>, <<"i","n","t","e","r","n">>, <<"a","n","a","l","y","s","t">>, <<"d","e","s","i","g","n","e","r">>, <<"a","r","c","h","i","t","e","c","t">>,
    <<"c","o","n","s","u","l","t","a","n","t">>, <<"d","i","r","e","c","t","o","r">>, <<"l","e","a","d">>, <<"s","c","i","e","n","t","i","s","t">>, <<"a","d","m","i","n","i","s","t","r","a","t","o","r">>, <<"c","o","o","r","d","i","n","a","t","o","r">>,
    <<"s","p","e","c","i","a","l","i","s","t">>, <<"t","e","c","h","n","i","c","i","a","n">>, <<"o","f","f","i","c","e","r">>, <<"a","s","s","o","c","i","a","t","e">>, <<"v","i","c","e"," ","p","r","e","s","i","d","e","n","t">>, <<"v","p">>, <<"h","e","a","d"," ","o","f">>,
    <<"f","o","u","n","d","e","r">>, <<"c","o","-","f","o","u","n","d","e","r">>, <<"c","t","o">>, <<"c","e","o">>, <<"c","o","o">>, <<"c","f","o">>>>

_NON_NAME_PATTERNS == <<<<"r","e","s","u","m","e">>, <<"c","u","r","r","i","c","u","l","u","m"," ","v","i","t","a","e">>, <<"c","v">>, <<"c","o","v","e","r"," ","l","e","t","t","e","r">>, <<"p","o","r","t","f","o","l","i","o">>>>

\* s.startswith(prefix)
startswith(s, prefix) == Len(s) >= Len(prefix) /\ SubSeq(s, 1, Len(prefix)) = prefix

\* s.rstrip(chars)
rstrip_chars(s, chars) == SubSeq(s, 1, last_kept(s, chars, Len(s)))

\* _classify_line accepting every line that starts with an alias
_classify_line_any_prefix(line) ==
  LET low == strip(rstrip_chars(lower(line), {":"}))
      N == 1..Len(_ALIAS_LOOKUP)
      prefixed == {k \in N : startswith(low, _ALIAS_LOOKUP[k][1])}
  IN  IF prefixed # {}
      THEN _ALIAS_LOOKUP[CHOOSE k \in prefixed : \A l \in prefixed : k <= l][2]
      ELSE "None"

\* ResumeParser._classify_line: the canonical section name, or "None"
_classify_line(line) ==
  LET low == strip(rstrip_chars(lower(line), {":"}))
      N == 1..Len(_ALIAS_LOOKUP)
      direct == {k \in N : _ALIAS_LOOKUP[k][1] = low}
      prefixed == {k \in N :
                     /\ startswith(low, _ALIAS_LOOKUP[k][1])
                     /\ \/ Len(low) = Len(_ALIAS_LOOKUP[k][1])
                        \/ low[Len(_ALIAS_LOOKUP[k][1]) + 1] \in {":", " ", "\t"}}
  IN  IF direct # {} THEN _ALIAS_LOOKUP[CHOOSE k \in direct : TRUE][2]
      ELSE IF prefixed # {}
           THEN _ALIAS_LOOKUP[CHOOSE k \in prefixed : \A l \in prefixed : k <= l][2]
      ELSE "None"

\* [line.strip() for line in text.splitlines() if line.strip()]
RECURSIVE stripped_lines(_)
stripped_lines(lines) ==
  IF lines = <<>> THEN <<>>
  ELSE (IF strip(Head(lines)) # <<>> THEN <<strip(Head(lines))>> ELSE <<>>)
         \o stripped_lines(Tail(lines))

\* the list sections of _build_section_map after the lines with index < n: the pairs
\* <<canonical, idx>> of the header lines, idx counted from 0
RECURSIVE header_hits(_, _)
header_hits(lines, n) ==
  IF n = 0 THEN <<>>
  ELSE header_hits(lines, n - 1)
         \o (IF _classify_line(lines[n]) # "None"
             THEN << <<_classify_line(lines[n]), n - 1>> >> ELSE <<>>)
\* section_map_after keeping the range of the first header of a name
RECURSIVE section_map_after_first_kept(_, _, _)
section_map_after_first_kept(sections, nlines, i) ==
  IF i = 0 THEN [name \in {} |-> <<0, 0>>]
  ELSE section_map_after_first_kept(sections, nlines, i - 1)
         @@ (sections[i][1] :> <<sections[i][2],
                                 IF i + 1 <= Len(sections) THEN sections[i + 1][2] ELSE nlines>>)

\* self._section_map after the first i items of sections have been assigned
RECURSIVE section_map_after(_, _, _)
section_map_after(sections, nlines, i) ==
  IF i = 0 THEN [name \in {} |-> <<0, 0>>]
  ELSE (sections[i][1] :> <<sections[i][2],
                            IF i + 1 <= Len(sections) THEN sections[i + 1][2] ELSE nlines>>)
         @@ section_map_after(sections, nlines, i - 1)
\* _build_section_map letting every section run to the end of the document
_build_section_map_to_end(lines) ==
  CHOOSE m \in {[name \in DOMAIN sm |-> <<sm[name][1], Len(lines)>>] :
                  sm \in {section_map_after(sections, Len(lines), Len(sections)) :
                            sections \in {header_hits(lines, Len(lines))}}} : TRUE

\* ResumeParser._build_section_map
_build_section_map(lines) ==
  CHOOSE m \in {section_map_after(sections, Len(lines), Len(sections)) :
                  sections \in {header_hits(lines, Len(lines))}} : TRUE

\* ResumeParser.__init__
ResumeParser(text) ==
  CHOOSE self \in {[raw_text |-> text, lines |-> lines, _section_map |-> _build_section_map(lines)] :
                     lines \in {stripped_lines(splitlines(text))}} : TRUE

\* _section_lines returning every line when the section was not detected
_section_lines_whole_text(self, name) ==
  IF name \notin DOMAIN self._section_map THEN self.lines
  ELSE SubSeq(self.lines, self._section_map[name][1] + 2, self._section_map[name][2])

\* ResumeParser._section_lines: self.lines[start + 1 : end]
_section_lines(self, name) ==
  IF name \notin DOMAIN self._section_map THEN <<>>
  ELSE SubSeq(self.lines, self._section_map[name][1] + 2, self._section_map[name][2])

\* re.split at every character of seps: the chunks between them, empty ones included
RECURSIVE re_split(_, _, _)
re_split(text, seps, cur) ==
  IF text = <<>> THEN <<cur>>
  ELSE IF Head(text) \in seps THEN <<cur>> \o re_split(Tail(text), seps, <<>>)
  ELSE re_split(Tail(text), seps, Append(cur, Head(text)))

\* ResumeParser._split_list
_split_list(text) ==
  stripped_lines(re_split(text, {",", "|", "/", "U+2022", "U+2023", "-"}, <<>>))

\* the list after skills.extend(_split_list(line)) for each of the lines
RECURSIVE split_all(_)
split_all(lines) ==
  IF lines = <<>> THEN <<>> ELSE _split_list(Head(lines)) \o split_all(Tail(lines))

\* [s for s in items if s]
RECURSIVE non_empty(_)
non_empty(items) ==
  IF items = <<>> THEN <<>>
  ELSE (IF Head(items) # <<>> THEN <<Head(items)>> ELSE <<>>) \o non_empty(Tail(items))

\* line.split(":", 1)[-1] if ":" in line else ""
after_colon(line) ==
  IF \E i \in 1..Len(line) : line[i] = ":"
  THEN SubSeq(line, 1 + (CHOOSE i \in 1..Len(line) :
                           line[i] = ":" /\ \A j \in 1..(i - 1) : line[j] # ":"), Len(line))
  ELSE <<>>
\* legacy_from ending the capture at the first section header after the trigger line
RECURSIVE legacy_from_until_header(_, _, _)
legacy_from_until_header(lines, i, capture) ==
  IF i > Len(lines) THEN <<>>
  ELSE LET trigger == \/ startswith(lower(lines[i]), <<"s","k","i","l","l","s">>)
                      \/ startswith(lower(lines[i]), <<"t","e","c","h","n","o","l","o","g","i","e","s">>)
       IN  IF trigger
           THEN _split_list(after_colon(lines[i])) \o legacy_from_until_header(lines, i + 1, TRUE)
           ELSE IF capture /\ _classify_line(lines[i]) # "None" THEN <<>>
           ELSE IF capture THEN _split_list(lines[i]) \o legacy_from_until_header(lines, i + 1, TRUE)
           ELSE legacy_from_until_header(lines, i + 1, FALSE)

\* the list skills of _extract_skills_legacy after the lines from index i on, capture
\* being the flag before line i
RECURSIVE legacy_from(_, _, _)
legacy_from(lines, i, capture) ==
  IF i > Len(lines) THEN <<>>
  ELSE LET trigger == \/ startswith(lower(lines[i]), <<"s","k","i","l","l","s">>)
                      \/ startswith(lower(lines[i]), <<"t","e","c","h","n","o","l","o","g","i","e","s">>)
       IN  IF trigger
           THEN _split_list(after_colon(lines[i])) \o legacy_from(lines, i + 1, TRUE)
           ELSE IF capture /\ lines[i] = <<>> THEN <<>>
           ELSE IF capture THEN _split_list(lines[i]) \o legacy_from(lines, i + 1, TRUE)
           ELSE legacy_from(lines, i + 1, FALSE)

\* ResumeParser._extract_skills_legacy
_extract_skills_legacy(self) == non_empty(legacy_from(self.lines, 1, FALSE))
\* _extract_skills putting the items after the colon of the header line before those of
\* the body lines
_extract_skills_header_first(self) ==
  LET lines == _section_lines(self, "skills")
      header_line == self.lines[self._section_map["skills"][1] + 1]
  IN  IF lines # <<>>
      THEN non_empty(_split_list(after_colon(header_line)) \o split_all(lines))
      ELSE IF "skills" \in DOMAIN self._section_map /\ strip(after_colon(header_line)) # <<>>
           THEN non_empty(_split_list(after_colon(header_line)))
      ELSE _extract_skills_legacy(self)

\* ResumeParser._extract_skills
_extract_skills_parser(self) ==
  LET lines == _section_lines(self, "skills")
      header_line == self.lines[self._section_map["skills"][1] + 1]
  IN  IF lines # <<>> THEN non_empty(split_all(lines))
      ELSE IF "skills" \in DOMAIN self._section_map /\ strip(after_colon(header_line)) # <<>>
           THEN non_empty(_split_list(after_colon(header_line)))
      ELSE _extract_skills_legacy(self)

\* ResumeParser._extract_section_items
_extract_section_items(self, name) == non_empty(split_all(_section_lines(self, name)))

(* regular expressions of parser.py, each computed as re computes it *)

Digits == {"0", "1", "2", "3", "4", "5", "6", "7", "8", "9"}

\* \w and \s for the characters of the texts considered
WordChars == Letters \cup Digits \cup {"_"}
SpaceChars == {" ", "\t", "\n", "\r", "U+00A0"}

\* the index after the longest run of characters of chars that starts at index i
run_end(s, chars, i) == first_kept(s, chars, i)

\* EMAIL_RE matched at start index i: the index of the last character of the match, 0
\* when there is no match at i.  [A-Za-z0-9._%+-]+ must reach the "@"; of the domain
\* run [A-Za-z0-9.-]+ the last "." followed by two letters is taken, then all letters
email_match_end(s, i) ==
  LET local == Letters \cup Digits \cup {".", "_", "%", "+", "-"}
      domain == Letters \cup Digits \cup {".", "-"}
      at == run_end(s, local, i)
      dend == run_end(s, domain, at + 1)
      dots == {q \in (at + 2)..(dend - 1) :
                 /\ s[q] = "."
                 /\ q + 2 <= Len(s)
                 /\ s[q + 1] \in Letters /\ s[q + 2] \in Letters}
  IN  IF at = i \/ at > Len(s) \/ s[at] # "@" \/ dots = {} THEN 0
      ELSE run_end(s, Letters, (CHOOSE q \in dots : \A r \in dots : r <= q) + 1) - 1

\* PHONE_RE matched at start index i: the index of the last character, 0 when no match.
\* \+?\d then at least 7 of [\d\s().-] then \d, the last digit of the run being taken
phone_match_end(s, i) ==
  LET first == IF i <= Len(s) /\ s[i] = "+" THEN i + 1 ELSE i
      body == Digits \cup SpaceChars \cup {"(", ")", ".", "-"}
      bend == run_end(s, body, first + 1)
      lasts == {k \in (first + 8)..(bend - 1) : s[k] \in Digits}
  IN  IF first > Len(s) \/ s[first] \notin Digits \/ lasts = {} THEN 0
      ELSE CHOOSE k \in lasts : \A l \in lasts : l <= k

\* pattern.search(line) for EMAIL_RE and PHONE_RE: the text matched, None without match
EMAIL_RE_search(s) ==
  LET starts == {i \in 1..Len(s) : email_match_end(s, i) # 0}
  IN  IF starts = {} THEN None
      ELSE LET i == CHOOSE a \in starts : \A b \in starts : a <= b
           IN  Some(SubSeq(s, i, email_match_end(s, i)))

PHONE_RE_search(s) ==
  LET starts == {i \in 1..Len(s) : phone_match_end(s, i) # 0}
  IN  IF starts = {} THEN None
      ELSE LET i == CHOOSE a \in starts : \A b \in starts : a <= b
           IN  Some(SubSeq(s, i, phone_match_end(s, i)))

\* re.search(r"[A-Za-z]{2,}\s+[A-Za-z]{2,}", line) is not None
two_words(s) ==
  \E j \in 2..Len(s) :
    /\ s[j - 1] \in Letters /\ s[j] \in Letters
    /\ j + 1 <= Len(s) /\ s[j + 1] \in SpaceChars
    /\ LET k == run_end(s, SpaceChars, j + 1)
       IN  k + 1 <= Len(s) /\ s[k] \in Letters /\ s[k + 1] \in Letters

\* \b between the characters i and i + 1 of s
word_boundary(s, i) ==
  (i >= 1 /\ i <= Len(s) /\ s[i] \in WordChars)
    # (i + 1 >= 1 /\ i + 1 <= Len(s) /\ s[i + 1] \in WordChars)

\* ResumeParser._looks_like_year: re.search(r"\b(19|20)\d{2}\b", line)
_looks_like_year(s) ==
  \E i \in 1..(Len(s) - 3) :
    /\ word_boundary(s, i - 1)
    /\ <<s[i], s[i + 1]>> \in {<<"1", "9">>, <<"2", "0">>}
    /\ s[i + 2] \in Digits /\ s[i + 3] \in Digits
    /\ word_boundary(s, i + 3)

\* re.findall(r"\b[A-Z][A-Za-z+#.]*(?:\.[A-Za-z]+)*\b", text) from index i on: at a
\* capital after a word boundary, the longest stretch of [A-Za-z+#.] that ends at a
\* word boundary
RECURSIVE tool_tokens(_, _)
tool_tokens(s, i) ==
  IF i > Len(s) THEN <<>>
  ELSE LET rend == run_end(s, Letters \cup {"+", "#", "."}, i) - 1
           ends == {e \in i..rend : word_boundary(s, e)}
       IN  IF s[i] \in DOMAIN ToLower /\ word_boundary(s, i - 1) /\ ends # {}
           THEN LET e == CHOOSE a \in ends : \A b \in ends : b <= a
                IN  <<SubSeq(s, i, e)>> \o tool_tokens(s, e + 1)
           ELSE tool_tokens(s, i + 1)

TOOL_STOPWORDS ==
  {<<"B","u","i","l","t">>, <<"D","e","v","e","l","o","p","e","d">>, <<"C","r","e","a","t","e","d">>, <<"M","a","n","a","g","e","d">>, <<"L","e","d">>, <<"D","e","s","i","g","n","e","d">>, <<"I","m","p","l","e","m","e","n","t","e","d">>,
   <<"D","e","p","l","o","y","e","d">>, <<"W","o","r","k","e","d">>, <<"C","o","l","l","a","b","o","r","a","t","e","d">>, <<"I","m","p","r","o","v","e","d">>, <<"R","e","d","u","c","e","d">>, <<"I","n","c","r","e","a","s","e","d">>, <<"T","h","e">>,
   <<"T","h","i","s">>, <<"T","h","a","t">>, <<"U","s","i","n","g">>, <<"W","i","t","h">>, <<"A","n","d">>, <<"F","o","r">>, <<"F","r","o","m">>, <<"I","n","t","o">>}

\* list(dict.fromkeys(items)): the first occurrences, in order
RECURSIVE first_occurrences(_, _)
first_occurrences(items, seen) ==
  IF items = <<>> THEN <<>>
  ELSE IF Head(items) \in seen THEN first_occurrences(Tail(items), seen)
  ELSE <<Head(items)>> \o first_occurrences(Tail(items), seen \cup {Head(items)})

\* ResumeParser._extract_tools_from_text
_extract_tools_from_text(text) ==
  LET tokens == tool_tokens(text, 1)
      kept == SelectSeq(tokens, LAMBDA t : t \notin TOOL_STOPWORDS)
  IN  first_occurrences(kept, {})

\* self.lines[:n]
first_lines(lines, n) == SubSeq(lines, 1, IF Len(lines) < n THEN Len(lines) ELSE n)

\* ResumeParser._search_regex for EMAIL_RE (which = "email") and PHONE_RE ("phone")
RECURSIVE _search_regex(_, _)
_search_regex(lines, which) ==
  IF lines = <<>> THEN <<>>
  ELSE LET m == IF which = "email" THEN EMAIL_RE_search(Head(lines))
                ELSE PHONE_RE_search(Head(lines))
       IN  IF ~m.isNone THEN m.v ELSE _search_regex(Tail(lines), which)

\* the loop of _extract_name over the lines given: the line returned, None when the
\* loop ends without return
RECURSIVE name_among(_)
name_among(lines) ==
  IF lines = <<>> THEN None
  ELSE LET line == Head(lines)
           low == strip(lower(line))
       IN  IF \/ \E k \in 1..Len(_NON_NAME_PATTERNS) : startswith(low, _NON_NAME_PATTERNS[k])
              \/ _classify_line(line) # "None"
              \/ (~EMAIL_RE_search(line).isNone /\ ~two_words(line))
              \/ (~PHONE_RE_search(line).isNone /\ ~two_words(line))
           THEN name_among(Tail(lines))
           ELSE Some(line)
\* _extract_name looking at every line of the document
_extract_name_any_line(self) ==
  LET found == name_among(self.lines)
  IN  IF ~found.isNone THEN found.v
      ELSE IF self.lines # <<>> THEN self.lines[1] ELSE <<>>

\* ResumeParser._extract_name
_extract_name(self) ==
  LET found == name_among(first_lines(self.lines, 5))
  IN  IF ~found.isNone THEN found.v
      ELSE IF self.lines # <<>> THEN self.lines[1] ELSE <<>>

LOCATION_KEYWORDS ==
  {<<"r","e","m","o","t","e">>, <<"u","s","a">>, <<"u","k">>, <<"c","a","n","a","d","a">>, <<"i","n","d","i","a">>, <<"g","e","r","m","a","n","y">>, <<"f","r","a","n","c","e">>, <<"a","u","s","t","r","a","l","i","a">>,
   <<"s","i","n","g","a","p","o","r","e">>, <<"j","a","p","a","n">>, <<"c","h","i","n","a">>, <<"b","r","a","z","i","l">>, <<"n","e","t","h","e","r","l","a","n","d","s">>, <<"s","w","e","d","e","n">>, <<"n","e","w"," ","y","o","r","k">>,
   <<"s","a","n"," ","f","r","a","n","c","i","s","c","o">>, <<"l","o","n","d","o","n">>, <<"b","e","r","l","i","n">>, <<"t","o","r","o","n","t","o">>, <<"s","e","a","t","t","l","e">>, <<"c","h","i","c","a","g","o">>, <<"b","o","s","t","o","n">>,
   <<"l","o","s"," ","a","n","g","e","l","e","s">>, <<"a","u","s","t","i","n">>, <<"d","e","n","v","e","r">>, <<"b","a","n","g","a","l","o","r","e">>, <<"m","u","m","b","a","i">>, <<"h","y","d","e","r","a","b","a","d">>}

\* ResumeParser._extract_location
_extract_location(self) ==
  LET lines == first_lines(self.lines, 5)
      hits == {i \in 1..Len(lines) : \E kw \in LOCATION_KEYWORDS : contains(lower(lines[i]), kw)}
  IN  IF hits = {} THEN <<>> ELSE lines[CHOOSE i \in hits : \A j \in hits : i <= j]

\* ResumeParser._extract_contact
_extract_contact(self) ==
  ContactInfo(_extract_name(self),
              _search_regex(first_lines(self.lines, 5), "email"),
              _search_regex(first_lines(self.lines, 5), "phone"),
              _extract_location(self))

\* the list paragraphs of _extract_summary after the lines given, n being its length
\* before them
RECURSIVE paragraphs_from(_, _)
paragraphs_from(lines, n) ==
  IF lines = <<>> \/ n >= 3 THEN <<>>
  ELSE IF \/ _classify_line(Head(lines)) # "None"
          \/ ~EMAIL_RE_search(Head(lines)).isNone
          \/ ~PHONE_RE_search(Head(lines)).isNone
       THEN paragraphs_from(Tail(lines), n)
  ELSE <<Head(lines)>> \o paragraphs_from(Tail(lines), n + 1)

\* ResumeParser._extract_summary
_extract_summary(self) ==
  LET lines == _section_lines(self, "summary")
      starts == {self._section_map[name][1] : name \in DOMAIN self._section_map}
      first_section_idx ==
        IF starts = {} THEN Len(self.lines) ELSE CHOOSE a \in starts : \A b \in starts : a <= b
  IN  IF lines # <<>> THEN join(<<" ">>, first_lines(lines, 5))
      ELSE join(<<" ">>, paragraphs_from(first_lines(self.lines, first_section_idx), 0))

\* ResumeParser._is_role_title
_is_role_title(lower_line) ==
  \E k \in 1..Len(ROLE_KEYWORDS) : contains(lower_line, ROLE_KEYWORDS[k])

\* ResumeParser._experience_from_lines
_experience_from_lines(lines) ==
  LET description == join(<<" ">>, SubSeq(lines, 3, Len(lines)))
  IN  [title |-> IF Len(lines) >= 1 THEN lines[1] ELSE <<>>,
       company |-> IF Len(lines) > 1 THEN lines[2] ELSE <<>>,
       description |-> description,
       duration |-> <<>>,
       tools |-> _extract_tools_from_text(description)]
\* experiences_from leaving out the buffer that is open when the lines end
RECURSIVE experiences_from_closed_only(_, _)
experiences_from_closed_only(lines, buffer) ==
  IF lines = <<>>
  THEN <<>>
  ELSE IF _is_role_title(lower(Head(lines))) /\ buffer # <<>>
       THEN <<_experience_from_lines(buffer)>> \o experiences_from_closed_only(Tail(lines), <<Head(lines)>>)
  ELSE experiences_from_closed_only(Tail(lines), Append(buffer, Head(lines)))

\* the list experiences of _extract_experience after the lines given, buffer being the
\* lines collected before them
RECURSIVE experiences_from(_, _)
experiences_from(lines, buffer) ==
  IF lines = <<>>
  THEN (IF buffer # <<>> THEN <<_experience_from_lines(buffer)>> ELSE <<>>)
  ELSE IF _is_role_title(lower(Head(lines))) /\ buffer # <<>>
       THEN <<_experience_from_lines(buffer)>> \o experiences_from(Tail(lines), <<Head(lines)>>)
  ELSE experiences_from(Tail(lines), Append(buffer, Head(lines)))

\* ResumeParser._extract_experience
_extract_experience(self) == experiences_from(_section_lines(self, "experience"), <<>>)

DEGREE_KEYWORDS ==
  {<<"b","a","c","h","e","l","o","r">>, <<"m","a","s","t","e","r">>, <<"p","h","d">>, <<"p","h",".","d">>, <<"m","b","a">>, <<"b",".","s">>, <<"m",".","s">>, <<"b",".","a">>, <<"m",".","a">>, <<"a","s","s","o","c","i","a","t","e">>, <<"d","i","p","l","o","m","a">>}

\* ResumeParser._looks_like_degree
_looks_like_degree(line) == \E kw \in DEGREE_KEYWORDS : contains(lower(line), kw)
\* education_from taking a line that follows an institution as graduation only when the
\* line is nothing but the year
RECURSIVE education_from_bare_year(_, _)
education_from_bare_year(lines, i) ==
  IF i > Len(lines) THEN <<>>
  ELSE IF i + 1 <= Len(lines) /\ _looks_like_degree(lines[i + 1])
       THEN IF i + 2 <= Len(lines) /\ _looks_like_year(lines[i + 2])
            THEN <<Education(lines[i], lines[i + 1], lines[i + 2])>> \o education_from_bare_year(lines, i + 3)
            ELSE <<Education(lines[i], lines[i + 1], <<>>)>> \o education_from_bare_year(lines, i + 2)
  ELSE IF i + 1 <= Len(lines) /\ _looks_like_year(lines[i + 1]) /\ Len(lines[i + 1]) = 4
       THEN <<Education(lines[i], <<>>, lines[i + 1])>> \o education_from_bare_year(lines, i + 2)
  ELSE <<Education(lines[i], <<>>, <<>>)>> \o education_from_bare_year(lines, i + 1)

\* the list education of _extract_education from line i (counted from 1) on
RECURSIVE education_from(_, _)
education_from(lines, i) ==
  IF i > Len(lines) THEN <<>>
  ELSE IF i + 1 <= Len(lines) /\ _looks_like_degree(lines[i + 1])
       THEN IF i + 2 <= Len(lines) /\ _looks_like_year(lines[i + 2])
            THEN <<Education(lines[i], lines[i + 1], lines[i + 2])>> \o education_from(lines, i + 3)
            ELSE <<Education(lines[i], lines[i + 1], <<>>)>> \o education_from(lines, i + 2)
  ELSE IF i + 1 <= Len(lines) /\ _looks_like_year(lines[i + 1])
       THEN <<Education(lines[i], <<>>, lines[i + 1])>> \o education_from(lines, i + 2)
  ELSE <<Education(lines[i], <<>>, <<>>)>> \o education_from(lines, i + 1)
\* education_step passing over the year that follows a degree without keeping it
education_step_year_dropped(lines, i, education) ==
  IF i + 1 < Len(lines) /\ _looks_like_degree(lines[i + 2])
  THEN IF i + 2 < Len(lines) /\ _looks_like_year(lines[i + 3])
       THEN [i |-> i + 3,
             education |-> Append(education, Education(lines[i + 1], lines[i + 2], <<>>))]
       ELSE [i |-> i + 2,
             education |-> Append(education, Education(lines[i + 1], lines[i + 2], <<>>))]
  ELSE IF i + 1 < Len(lines) /\ _looks_like_year(lines[i + 2])
       THEN [i |-> i + 2,
             education |-> Append(education, Education(lines[i + 1], <<>>, lines[i + 2]))]
  ELSE [i |-> i + 1,
        education |-> Append(education, Education(lines[i + 1], <<>>, <<>>))]
\* one pass of the while loop of _extract_education with the cursor i (counted from 0) and
\* the list education made so far: the cursor and the list after the pass
education_step(lines, i, education) ==
  IF i + 1 < Len(lines) /\ _looks_like_degree(lines[i + 2])
  THEN IF i + 2 < Len(lines) /\ _looks_like_year(lines[i + 3])
       THEN [i |-> i + 3,
             education |-> Append(education, Education(lines[i + 1], lines[i + 2], lines[i + 3]))]
       ELSE [i |-> i + 2,
             education |-> Append(education, Education(lines[i + 1], lines[i + 2], <<>>))]
  ELSE IF i + 1 < Len(lines) /\ _looks_like_year(lines[i + 2])
       THEN [i |-> i + 2,
             education |-> Append(education, Education(lines[i + 1], <<>>, lines[i + 2]))]
  ELSE [i |-> i + 1,
        education |-> Append(education, Education(lines[i + 1], <<>>, <<>>))]

\* ResumeParser._extract_education
_extract_education(self) == education_from(_section_lines(self, "education"), 1)

\* ResumeParser.parse
parse(self) ==
  [contact |-> _extract_contact(self),
   summary |-> _extract_summary(self),
   skills |-> _extract_skills_parser(self),
   experiences |-> _extract_experience(self),
   education |-> _extract_education(self),
   certifications |-> _extract_section_items(self, "certifications"),
   achievements |-> _extract_section_items(self, "achievements")]

----------------------------------------------------------------------------
(* pipeline.py *)

MSG_REQUIRED ==
  <<"A","d","d"," ","e","v","i","d","e","n","c","e"," ","f","o","r"," ","r",
    "e","q","u","i","r","e","d"," ","s","k","i","l","l","s",":"," ">>

MSG_OPTIONAL ==
  <<"C","o","n","s","i","d","e","r"," ","a","d","d","i","n","g"," ","o","p",
    "t","i","o","n","a","l"," ","s","k","i","l","l","s",":"," ">>

MSG_EXPERIENCE ==
  <<"P","r","o","v","i","d","e"," ","i","m","p","a","c","t","-","f","o","c",
    "u","s","e","d"," ","b","u","l","l","e","t","s"," ","t","h","a","t"," ",
    "m","e","n","t","i","o","n"," ","t","h","e"," ","r","e","q","u","e","s",
    "t","e","d"," ","t","o","o","l","s"," ","i","n"," ","y","o","u","r"," ",
    "r","e","c","e","n","t"," ","e","x","p","e","r","i","e","n","c","e",".">>

MSG_ALIGNED ==
  <<"P","r","o","f","i","l","e"," ","i","s"," ","w","e","l","l","-","a","l",
    "i","g","n","e","d","."," ","H","i","g","h","l","i","g","h","t"," ","r",
    "e","c","e","n","t"," ","w","i","n","s"," ","i","n"," ","t","h","e"," ",
    "s","u","m","m","a","r","y",".">>

\* formatted with the names as they are, not title-cased
formatted_untitled(skills) == join(<<",", " ">>, sorted(skills))

\* ", ".join(skill.title() for skill in sorted(skills))
formatted(skills) ==
  LET names == sorted(skills)
  IN  join(<<",", " ">>, [i \in 1..Len(names) |-> title(names[i])])

\* _heuristic_recommendations with the experience message ahead of the optional one
_heuristic_recommendations_reordered(self_scorer, profile, bd) ==
  LET mr == missing_required(self_scorer, profile)
      mo == missing_optional(self_scorer, profile)
      r1 == IF mr # {} THEN <<MSG_REQUIRED \o formatted(mr) \o <<".">>>> ELSE <<>>
      r2 == IF mo # {} THEN <<MSG_OPTIONAL \o formatted(mo) \o <<".">>>> ELSE <<>>
      r3 == IF bd.experience_alignment < 7000 THEN <<MSG_EXPERIENCE>> ELSE <<>>
      recs == r1 \o r3 \o r2
  IN  IF recs = <<>> THEN <<MSG_ALIGNED>> ELSE recs

\* ResumePipeline._heuristic_recommendations
_heuristic_recommendations(self_scorer, profile, bd) ==
  LET mr == missing_required(self_scorer, profile)
      mo == missing_optional(self_scorer, profile)
      r1 == IF mr # {} THEN <<MSG_REQUIRED \o formatted(mr) \o <<".">>>> ELSE <<>>
      r2 == IF mo # {} THEN <<MSG_OPTIONAL \o formatted(mo) \o <<".">>>> ELSE <<>>
      r3 == IF bd.experience_alignment < 7000 THEN <<MSG_EXPERIENCE>> ELSE <<>>
      recs == r1 \o r2 \o r3
  IN  IF recs = <<>> THEN <<MSG_ALIGNED>> ELSE recs


\* [line for line in lines if line.strip()]
RECURSIVE nonblank(_)
nonblank(lines) ==
  IF lines = <<>> THEN <<>>
  ELSE (IF strip(Head(lines)) # <<>> THEN <<Head(lines)>> ELSE <<>>) \o nonblank(Tail(lines))

\* the argument of lstrip in _generate_recommendations
MARKERS == {"U+2022", "-", "*", "1", "2", "3", "4", "5", "6", "7", "8", "9", ".", " "}

\* _generate_recommendations asking a second time when the request fails to connect
_generate_recommendations_retrying(self, self_scorer, profile, bd, reply) ==
  LET heuristic == _heuristic_recommendations(self_scorer, profile, bd)
  IN  IF self.llm = "None"
      THEN [exc |-> "None", recs |-> heuristic, requests |-> <<>>]
      ELSE LET r == enhance_recommendations(reply)
           IN  IF isinstance(r.exc, {"ConnectionError", "OSError"})
               THEN [exc |-> "None", recs |-> heuristic, requests |-> <<"generate", "generate">>]
               ELSE [exc |-> r.exc, recs |-> heuristic, requests |-> <<"generate">>]

\* ResumePipeline._generate_recommendations: the list returned or the exception raised,
\* and the advisory requests issued
_generate_recommendations(self, self_scorer, profile, bd, reply) ==
  LET heuristic == _heuristic_recommendations(self_scorer, profile, bd)
  IN  IF self.llm = "None"
      THEN [exc |-> "None", recs |-> heuristic, requests |-> <<>>]
      ELSE LET r == enhance_recommendations(reply)
               sent == <<"generate">>
           IN  IF r.exc # "None"
               THEN IF isinstance(r.exc, {"ConnectionError", "OSError"})
                    THEN [exc |-> "None", recs |-> heuristic, requests |-> sent]
                    ELSE [exc |-> r.exc, recs |-> <<>>, requests |-> sent]
               ELSE IF r.text.isNone
               THEN [exc |-> "AttributeError", recs |-> <<>>, requests |-> sent]
               ELSE LET llm_text == r.text.v
                        lines == splitlines(strip(llm_text))
                        kept  == nonblank(lines)
                        recs  == [i \in 1..Len(kept) |-> lstrip_chars(strip(kept[i]), MARKERS)]
                    IN  IF strip(llm_text) # <<>> /\ recs # <<>>
                        THEN [exc |-> "None", recs |-> recs, requests |-> sent]
                        ELSE [exc |-> "None", recs |-> heuristic, requests |-> sent]

PipelineResult(profile, bd, recommendations) ==
  [profile |-> profile, breakdown |-> bd, recommendations |-> recommendations]

NoResult == PipelineResult(CandidateProfile(<<>>, <<>>, <<>>), MatchBreakdown(0, 0, 0), <<>>)

\* the scorer with its required skills replaced by their canonical terms
canonical_scorer(self_scorer) ==
  [self_scorer EXCEPT !.required_skills = {canonicalize_skill(x) : x \in self_scorer.required_skills}]

\* run leaving the scorer with its required skills replaced by their canonical terms
run_canonicalizing(self, self_scorer, resume_text, reply) ==
  CHOOSE r \in UNION {UNION {
      IF sc.exc # "None"
      THEN {[exc |-> sc.exc, value |-> NoResult, requests |-> <<>>,
             profile |-> profile, scorer |-> canonical_scorer(self_scorer)]}
      ELSE {[exc |-> g.exc,
              value |-> IF g.exc = "None" THEN PipelineResult(profile, sc.value, g.recs)
                        ELSE NoResult,
              requests |-> g.requests, profile |-> profile, scorer |-> canonical_scorer(self_scorer)] :
               g \in {_generate_recommendations(self, self_scorer, profile, sc.value, reply)}} :
      sc \in {score(self_scorer, profile)}} :
      profile \in {parse(ResumeParser(resume_text))}} : TRUE

\* ResumePipeline.run: parse, score, recommend, each evaluated once; the PipelineResult
\* returned or the exception raised, the advisory requests issued, the profile parsed,
\* and the scorer as the call leaves it (the call reads the scorer's sets and assigns none)
run(self, self_scorer, resume_text, reply) ==
  CHOOSE r \in UNION {UNION {
      IF sc.exc # "None"
      THEN {[exc |-> sc.exc, value |-> NoResult, requests |-> <<>>,
             profile |-> profile, scorer |-> self_scorer]}
      ELSE {[exc |-> g.exc,
              value |-> IF g.exc = "None" THEN PipelineResult(profile, sc.value, g.recs)
                        ELSE NoResult,
              requests |-> g.requests, profile |-> profile, scorer |-> self_scorer] :
               g \in {_generate_recommendations(self, self_scorer, profile, sc.value, reply)}} :
      sc \in {score(self_scorer, profile)}} :
      profile \in {parse(ResumeParser(resume_text))}} : TRUE


\* extracted.get(key) or None
or_none(items) == IF Len(items) = 0 THEN None ELSE Some(items)

NoPipeline == [job_description |-> <<>>, use_llm |-> FALSE, llm |-> "None"]
NoScorer   == [job_description |-> <<>>, required_skills |-> {}, optional_skills |-> {}]

\* ResumePipeline.__init__: the object and its scorer, or the exception raised, and the
\* advisory requests issued.  probe is the service's reply to the reachability request,
\* reply its reply to the skill-extraction request.
ResumePipeline(job_description, required_skills, optional_skills, use_llm, probe, reply) ==
  LET available == use_llm /\ is_available(probe)
      asks      == available /\ required_skills.isNone /\ optional_skills.isNone
      extracted == extract_skills_from_jd(reply)
      sent      == (IF use_llm THEN <<"tags">> ELSE <<>>) \o (IF asks THEN <<"generate">> ELSE <<>>)
      req       == IF asks THEN or_none(extracted.required) ELSE required_skills
      opt       == IF asks THEN or_none(extracted.optional) ELSE optional_skills
  IN  IF asks /\ extracted.exc # "None"
      THEN [exc |-> extracted.exc, self |-> NoPipeline, scorer |-> NoScorer, requests |-> sent]
      ELSE [exc |-> "None",
            self |-> [job_description |-> job_description,
                      use_llm |-> use_llm,
                      llm |-> IF available THEN "client" ELSE "None"],
            scorer |-> JobMatchScorer(job_description, req, opt),
            requests |-> sent]

----------------------------------------------------------------------------
(* Bounds and the inputs the calls are made with *)

MaxSkills == 2   \* a profile lists at most this many skills

\* skills as a resume or a caller may spell them
RawSkills ==
  <<<<"P","y","t","h","o","n">>,
    <<" ","P","Y"," ">>,
    <<"J","S">>,
    <<"K","8","s">>,
    <<"D","o","c","k","e","r">>,
    <<" "," ">>>>

ExperienceEntries ==
  <<Experience(<<"D","e","v">>, <<"C","o">>,
               <<"U","s","e","d"," ","P","y","t","h","o","n"," ","a","n","d"," ","D","o","c","k","e","r"," ","d","a","i","l","y">>),
    Experience(<<"C","l","o","u","d"," ","E","n","g","i","n","e","e","r">>, <<"J","S"," ","C","o","r","p">>,
               <<"R","a","n"," ","k","8","s"," ","o","n"," ","A","W","S">>)>>

ExperienceLists ==
  {<<>>, <<ExperienceEntries[1]>>, <<ExperienceEntries[2]>>, ExperienceEntries}

\* the subsequences of seq with at most n elements
SubSeqs(seq, n) ==
  LET picks == {I \in SUBSET (1..Len(seq)) : Cardinality(I) <= n}
      RECURSIVE take(_, _)
      take(I, from) ==
        IF from > Len(seq) THEN <<>>
        ELSE IF from \in I THEN <<seq[from]>> \o take(I, from + 1)
        ELSE take(I, from + 1)
  IN  {take(I, 1) : I \in picks}

SUMMARY == <<"E","n","g","i","n","e","e","r">>

Profiles ==
  {CandidateProfile(SUMMARY, sk, ex) :
     sk \in SubSeqs(RawSkills, MaxSkills), ex \in ExperienceLists}

\* skills as a resume lists them
ResumeSkills == <<<<"P","y","t","h","o","n">>, <<"J","S">>, <<"K","8","s">>, <<"D","o","c","k","e","r">>>>

\* the lines of the experience section for the entries given
RECURSIVE EntryLines(_)
EntryLines(entries) ==
  IF entries = <<>> THEN <<>>
  ELSE <<Head(entries).title, Head(entries).company, Head(entries).description>>
         \o EntryLines(Tail(entries))

\* a resume: the name, a skills line when there are skills, an experience section when
\* there are entries
ResumeText(skills, entries) ==
  join(<<"\n">>,
       <<<<"A","n","n"," ","L","e","e">>>>
         \o (IF skills # <<>> THEN <<<<"S","k","i","l","l","s",":"," ">> \o join(<<",", " ">>, skills)>> ELSE <<>>)
         \o (IF entries # <<>> THEN <<<<"E","x","p","e","r","i","e","n","c","e">>>> \o EntryLines(entries) ELSE <<>>))

ResumeTexts ==
  {ResumeText(sk, ex) : sk \in SubSeqs(ResumeSkills, MaxSkills), ex \in ExperienceLists}

\* how many times run() is called on one pipeline
MaxRuns == 3

\* the texts run again and again on one pipeline
RepeatTexts ==
  {
   ResumeText(<<<<"J","S">>>>, <<>>),
   ResumeText(<<<<"P","y","t","h","o","n">>, <<"D","o","c","k","e","r">>>>, <<ExperienceEntries[1]>>),
   ResumeText(<<<<"J","S">>, <<"K","8","s">>>>, <<ExperienceEntries[2]>>)}

upper(s) == [i \in 1..Len(s) |-> UpperChar(s[i])]

\* a resume has at most this many lines
MaxLines == 3

\* lines a resume is made of: a name, section headers with and without items after the
\* colon, item lines, lines that start like a header without being one, a blank line
ParserLines ==
  <<<<"A","n","n"," ","L","e","e">>,
    <<"S","k","i","l","l","s",":"," ","P","y","t","h","o","n",","," ","J","S">>,
    <<"S","k","i","l","l","s">>,
    <<"E","x","p","e","r","i","e","n","c","e">>,
    <<"G","o"," ","|"," ","R","u","s","t"," ","-"," ","C">>,
    <<"S","k","i","l","l","s","e","t",":"," ","K","8","s",","," ",","," ">>,
    <<"T","e","c","h","n","o","l","o","g","i","e","s","/","T","o","o","l","s",":"," ","A","W","S">>,
    <<"C","e","r","t","i","f","i","c","a","t","i","o","n","s">>,
    <<" "," ">>>>

\* every sequence of at most n members of the sequence pool
RECURSIVE LineSeqs(_, _)
LineSeqs(pool, n) ==
  IF n = 0 THEN {<<>>}
  ELSE LineSeqs(pool, n - 1)
         \cup {Append(ls, pool[i]) : ls \in LineSeqs(pool, n - 1), i \in 1..Len(pool)}

ParserTexts == {join(<<"\n">>, ls) : ls \in LineSeqs(ParserLines, MaxLines)}

\* what follows an alias on a line
LineSuffixes ==
  {<<>>,
   <<":">>,
   <<":",":">>,
   <<" ","x">>,
   <<"\t","x">>,
   <<"x">>,
   <<":"," ","a",","," ","b">>,
   <<"U+00A0",":">>,
   <<"U+00A0","x">>,
   <<" ",":">>}

\* stripped non-empty lines as self.lines holds them: every alias, in lower and in upper
\* case, with each suffix, and three lines of prose
ClassifyLines ==
  {strip(form \o suffix) :
     form \in UNION {{_ALIAS_LOOKUP[k][1], upper(_ALIAS_LOOKUP[k][1])} : k \in 1..Len(_ALIAS_LOOKUP)},
     suffix \in LineSuffixes}
    \cup {<<"S","k","i","l","l","s","e","t">>, <<"E","x","p","e","r","i","e","n","c","e"," ","w","i","t","h"," ","P","y","t","h","o","n">>, <<"A","n","n"," ","L","e","e">>}

\* the head of a resume has at most this many lines
MaxHeadLines == 6

\* lines of the head of a resume: a document title, a section header, a telephone number
\* alone, a name followed by an e-mail address
HeadLines ==
  <<<<"R","e","s","u","m","e">>,
    <<"S","k","i","l","l","s",":">>,
    <<"+","1"," ","5","5","5"," ","1","2","3"," ","4","5","6","7">>,
    <<"A","n","n"," ","L","e","e"," ","a","n","n","@","l","e","e",".","i","o">>>>

\* further heads: an e-mail address alone, names alone, a title that holds the name
MoreHeads ==
  {<<"a","n","n","@","l","e","e",".","i","o">>,
   <<"A","n","n"," ","L","e","e">>,
   <<"a","n","n","@","l","e","e",".","i","o","\n","B","o"," ","L","i">>,
   <<"C","V"," ","o","f"," ","A","n","n"," ","L","e","e","\n","A","n","n"," ","L","e","e">>,
   <<"C","v","e","t","a","n"," ","I","v","a","n","o","v","\n","B","o"," ","L","i">>,
   <<"C","u","r","r","i","c","u","l","u","m"," ","V","i","t","a","e","\n","a","n","n","@","l","e","e",".","i","o","\n","+","1"," ","5","5","5"," ","1","2","3"," ","4","5","6","7">>,
   <<"P","o","r","t","f","o","l","i","o","\n","C","o","v","e","r"," ","L","e","t","t","e","r","\n","B","o"," ","L","i">>}

HeadTexts ==
  {join(<<"\n">>, ls) : ls \in LineSeqs(HeadLines, MaxHeadLines)} \cup MoreHeads
\* a section body of the section extractors has at most this many lines
MaxBodyLines == 4

\* lines of an experience section: two role titles, a company, a description
ExperienceLines ==
  <<<<"C","l","o","u","d"," ","E","n","g","i","n","e","e","r">>,
    <<"D","a","t","a"," ","A","n","a","l","y","s","t">>,
    <<"A","c","m","e"," ","C","o","r","p">>,
    <<"R","a","n"," ","K","8","s"," ","o","n"," ","A","W","S">>>>

\* an experience header followed by a body
ExperienceTexts ==
  {join(<<"\n">>, <<<<"E","x","p","e","r","i","e","n","c","e">>>> \o ls) : ls \in LineSeqs(ExperienceLines, MaxBodyLines)}

\* lines of an education section: an institution, a degree, a year alone, a year inside
\* a phrase, a degree with a year
EducationLines ==
  <<<<"S","t","a","t","e"," ","U","n","i","v","e","r","s","i","t","y">>,
    <<"B","a","c","h","e","l","o","r"," ","o","f"," ","S","c","i","e","n","c","e"," ","i","n"," ","C","o","m","p","u","t","e","r"," ","S","c","i","e","n","c","e">>,
    <<"2","0","1","8">>,
    <<"C","l","a","s","s"," ","o","f"," ","2","0","1","9">>,
    <<"M","B","A"," ","2","0","2","0">>>>

\* an education header followed by a body
EducationTexts ==
  {join(<<"\n">>, <<<<"E","d","u","c","a","t","i","o","n">>>> \o ls) : ls \in LineSeqs(EducationLines, MaxBodyLines)}

JobDescriptions ==
  {<<>>, <<"S","e","e","k","i","n","g"," ","a"," ","P","y","t","h","o","n"," ","d","e","v","e","l","o","p","e","r"," ","w","i","t","h"," ","D","o","c","k","e","r","/","A","W","S","."," ","G","o"," ","i","s"," ","a"," ","p","l","u","s",".">>}

RequiredLists ==
  {None,
   Some(<<>>),
   Some(<<<<" "," ">>>>),
   Some(<<<<"P","y","t","h","o","n">>, <<"D","o","c","k","e","r">>, <<"A","W","S">>>>),
   Some(<<<<"J","a","v","a","S","c","r","i","p","t">>, <<" ","j","s"," ">>, <<"K","u","b","e","r","n","e","t","e","s">>>>)}

OptionalLists ==
  {None,
   Some(<<>>),
   Some(<<<<" ">>, <<>>>>),
   Some(<<<<"D","o","c","k","e","r">>, <<" ","t","e","r","r","a","f","o","r","m"," ">>>>)}

ProbeReplies == {Reply(k, None) : k \in {"object", "refused", "timeout"}}

\* replies without a usable text: the failures, and an object whose "response" is null
FailureReplies ==
  {Reply(k, None) : k \in {"refused", "timeout", "read_timeout", "http_error",
                           "not_json", "not_object", "object"}}

\* texts the service may answer a recommendation request with
AdviceTexts ==
  {<<>>,
   <<" ","\n"," ">>,
   <<"-"," ","A","d","d"," ","D","o","c","k","e","r","\n","\n","2","."," ","Q","u","a","n","t","i","f","y"," ","i","m","p","a","c","t">>,
   <<"T","a","i","l","o","r"," ","t","h","e"," ","s","u","m","m","a","r","y","\n","-"," ">>}

\* texts the service may answer a skill-extraction request with
ExtractionTexts ==
  {<<>>,
   <<"S","u","r","e","!"," ","P","y","t","h","o","n">>,
   JSON_BOTH, JSON_REQUIRED_ONLY, JSON_OPTIONAL_ONLY, JSON_LIST, JSON_REQUIRED_STRING}

AdviceReplies == FailureReplies \cup {Reply("object", Some(t)) : t \in AdviceTexts}

ExtractionReplies == FailureReplies \cup {Reply("object", Some(t)) : t \in ExtractionTexts}

\* sizes of a target set: the small ones, and two around the size at which one missing
\* skill no longer shows in a percentage of two decimals (20000 itself is left out:
\* k / 20000 * 100 can lie halfway between two hundredths, where the float decides)
TargetSizes == (1..12) \cup {19999, 20001}

\* how many of total target skills the candidate has
HitCounts(total) == {h \in (0..12) \cup {total - 2, total - 1, total} : h >= 0 /\ h <= total}

\* skills a caller may put in a CandidateProfile: spellings of one skill that differ in
\* case and padding, another skill, and blanks
SkillSpellings ==
  {<<"P","y","t","h","o","n">>, <<"p","y","t","h","o","n"," ">>, <<" ","P","Y","T","H","O","N">>, <<"G","o">>, <<" "," ">>, <<>>}

RECURSIVE SeqsUpTo(_, _)
\* the sequences of at most n elements of S
SeqsUpTo(S, n) ==
  IF n = 0 THEN {<<>>}
  ELSE LET shorter == SeqsUpTo(S, n - 1)
       IN  shorter \cup {Append(q, x) : q \in shorter, x \in S}

SkillSequences == SeqsUpTo(SkillSpellings, MaxSkills + 1)

\* values of the fields of a ContactInfo
Contacts ==
  {ContactInfo(n, e, ph, l) :
     n \in {<<>>, <<" "," ">>, <<"A","n","n">>, <<" ","B","o","b"," ">>},
     e \in {<<>>, <<" ">>, <<"a","@","x",".","i","o">>, <<"b","@","x",".","i","o","\t">>},
     ph \in {<<>>, <<" ","5","5","5"," ","0","1","0","0"," ">>},
     l \in {<<>>, <<"R","e","m","o","t","e"," ">>}}

\* values of a percentage field, in hundredths
PctValues == {0, 1, 2, 3, 3333, 5000, 6667, 10000}

\* every key of the reverse table as it is, upper-cased and padded, and some unknown skills
SkillStrings ==
  LET keys == DOMAIN _SYNONYM_REVERSE
  IN  keys \cup {upper(k) : k \in keys}
           \cup {<<" ">> \o title(k) \o <<"\t", " ">> : k \in keys}
           \cup {<<>>, <<" "," ">>, <<"R","u","s","t">>, <<" ","F","o","o"," ","B","a","r"," ">>}

----------------------------------------------------------------------------
(* The program: an object is built, then called *)

NoCall == [op |-> "none", exc |-> "None"]

\* the reply that is never looked at, for a request that is not made
NoReply == Reply("none", None)

Init ==
  /\ phase = "new"
  /\ pipeline = NoPipeline
  /\ scorer = NoScorer
  /\ breakdown = MatchBreakdown(0, 0, 0)
  /\ out = NoCall
  /\ requests = <<>>

\* pipeline = ResumePipeline(job_description, required_skills, optional_skills, use_llm)
Construct(job_description, required_skills, optional_skills, use_llm, probe, reply) ==
  /\ phase = "new"
  /\ \E r \in {ResumePipeline(job_description, required_skills, optional_skills,
                                use_llm, probe, reply)} :
         /\ phase' = IF r.exc = "None" THEN "ready" ELSE "failed"
         /\ pipeline' = r.self
         /\ scorer' = r.scorer
         /\ requests' = r.requests
         /\ out' = [op |-> "ResumePipeline", exc |-> r.exc,
                    job_description |-> job_description,
                    required_skills |-> required_skills,
                    optional_skills |-> optional_skills,
                    use_llm |-> use_llm,
                    probe |-> IF Len(r.requests) >= 1 THEN probe ELSE NoReply,
                    reply |-> IF Len(r.requests) >= 2 THEN reply ELSE NoReply]
  /\ UNCHANGED breakdown

\* scorer = JobMatchScorer(job_description, required_skills, optional_skills)
NewScorer(job_description, required_skills, optional_skills) ==
  /\ phase = "new"
  /\ scorer' = JobMatchScorer(job_description, required_skills, optional_skills)
  /\ phase' = "ready"
  /\ out' = [op |-> "JobMatchScorer", exc |-> "None",
             job_description |-> job_description,
             required_skills |-> required_skills,
             optional_skills |-> optional_skills]
  /\ UNCHANGED <<pipeline, breakdown, requests>>

\* result = pipeline.run(resume_text)
Run(resume_text, reply) ==
  /\ phase = "ready"
  /\ \E r \in {run(pipeline, scorer, resume_text, reply)} :
         /\ out' = [op |-> "run", exc |-> r.exc, text |-> resume_text, profile |-> r.profile,
                    reply |-> IF Len(r.requests) >= 1 THEN reply ELSE NoReply,
                    value |-> r.value, earlier |-> {}]
         /\ requests' = r.requests
         /\ scorer' = r.scorer
  /\ phase' = "done"
  /\ UNCHANGED <<pipeline, breakdown>>

\* a further result = pipeline.run(resume_text) on a pipeline without advisory client;
\* earlier holds what the calls before returned
RunAgain(resume_text) ==
  /\ phase = "done"
  /\ out.op = "run"
  /\ pipeline.llm = "None"
  /\ Cardinality(out.earlier) + 1 < MaxRuns
  /\ \E r \in {run(pipeline, scorer, resume_text, NoReply)} :
         /\ out' = [op |-> "run", exc |-> r.exc, text |-> resume_text, profile |-> r.profile,
                    reply |-> NoReply, value |-> r.value,
                    earlier |-> out.earlier
                                  \cup {[text |-> out.text, exc |-> out.exc, value |-> out.value]}]
         /\ requests' = r.requests
         /\ scorer' = r.scorer
  /\ UNCHANGED <<phase, pipeline, breakdown>>

\* scorer.score(profile)
Score(profile) ==
  /\ phase = "ready"
  /\ \E r \in {score(scorer, profile)} :
         out' = [op |-> "score", exc |-> r.exc, profile |-> profile, value |-> r.value]
  /\ phase' = "done"
  /\ requests' = <<>>
  /\ UNCHANGED <<pipeline, scorer, breakdown>>

\* scorer.missing_required(profile)
MissingRequired(profile) ==
  /\ phase = "ready"
  /\ out' = [op |-> "missing_required", exc |-> "None", profile |-> profile,
             value |-> missing_required(scorer, profile)]
  /\ phase' = "done"
  /\ requests' = <<>>
  /\ UNCHANGED <<pipeline, scorer, breakdown>>

\* scorer.missing_optional(profile)
MissingOptional(profile) ==
  /\ phase = "ready"
  /\ out' = [op |-> "missing_optional", exc |-> "None", profile |-> profile,
             value |-> missing_optional(scorer, profile)]
  /\ phase' = "done"
  /\ requests' = <<>>
  /\ UNCHANGED <<pipeline, scorer, breakdown>>

\* the percentage score() makes of len(hits) and len(target) for a non-empty target set:
\* round(len(hits) / len(target) * 100, 2)
Coverage(hits, total) ==
  /\ phase = "new"
  /\ \E r \in {truediv(hits, total)} :
         out' = [op |-> "coverage", exc |-> r.exc, hits |-> hits, total |-> total,
                 value |-> round_pct(r)]
  /\ phase' = "done"
  /\ UNCHANGED <<pipeline, scorer, breakdown, requests>>

\* profile = CandidateProfile(skills=skills); profile.normalized_skills()
NormalizedSkills(skills) ==
  /\ phase = "new"
  /\ \E profile \in {CandidateProfile(<<>>, skills, <<>>)} :
       out' = [op |-> "normalized_skills", exc |-> "None", self |-> profile,
               value |-> normalized_skills(profile)]
  /\ phase' = "done"
  /\ UNCHANGED <<pipeline, scorer, breakdown, requests>>

\* self.merge(other)
Merge(self, other) ==
  /\ phase = "new"
  /\ \E r \in {merge(self, other)} :
       out' = [op |-> "merge", exc |-> "None", args |-> <<self, other>>,
               self |-> r.self, other |-> r.other, value |-> r.value]
  /\ phase' = "done"
  /\ UNCHANGED <<pipeline, scorer, breakdown, requests>>

\* canonicalize_skill(skill)
Canonicalize(skill) ==
  /\ phase = "new"
  /\ out' = [op |-> "canonicalize_skill", exc |-> "None", skill |-> skill,
             value |-> canonicalize_skill(skill)]
  /\ phase' = "done"
  /\ UNCHANGED <<pipeline, scorer, breakdown, requests>>

\* breakdown = MatchBreakdown(required_coverage, optional_coverage, experience_alignment)
NewBreakdown(rc, oc, ea) ==
  /\ phase = "new"
  /\ breakdown' = MatchBreakdown(rc, oc, ea)
  /\ phase' = "breakdown"
  /\ UNCHANGED <<pipeline, scorer, out, requests>>

\* breakdown.<field> = v
SetAttr(field, v) ==
  /\ phase = "breakdown"
  /\ breakdown' = [breakdown EXCEPT ![field] = v]
  /\ UNCHANGED <<phase, pipeline, scorer, out, requests>>

\* breakdown.overall_score
OverallScore ==
  /\ phase = "breakdown"
  /\ out' = [op |-> "overall_score", exc |-> "None", self |-> breakdown,
             value |-> overall_score(breakdown)]
  /\ phase' = "done"
  /\ UNCHANGED <<pipeline, scorer, breakdown, requests>>

\* self._classify_line(line) on a line of self.lines
ClassifyLine(line) ==
  /\ phase = "new"
  /\ out' = [op |-> "_classify_line", exc |-> "None", line |-> line, value |-> _classify_line(line)]
  /\ phase' = "done"
  /\ UNCHANGED <<pipeline, scorer, breakdown, requests>>

\* the canonical section names
SectionNames == {SECTION_ALIASES[k][1] : k \in 1..Len(SECTION_ALIASES)}

\* parser = ResumeParser(text), and parser._section_lines(name) for every canonical name
NewParser(text) ==
  /\ phase = "new"
  /\ \E self \in {ResumeParser(text)} :
       out' = [op |-> "ResumeParser", exc |-> "None", text |-> text, self |-> self,
               bodies |-> [name \in SectionNames |-> _section_lines(self, name)]]
  /\ phase' = "done"
  /\ UNCHANGED <<pipeline, scorer, breakdown, requests>>

\* ResumeParser(text)._extract_skills()
ExtractSkills(text) ==
  /\ phase = "new"
  /\ \E self \in {ResumeParser(text)} :
       out' = [op |-> "_extract_skills", exc |-> "None", text |-> text, self |-> self,
               value |-> _extract_skills_parser(self)]
  /\ phase' = "done"
  /\ UNCHANGED <<pipeline, scorer, breakdown, requests>>

\* ResumeParser(text)._extract_skills_legacy()
ExtractSkillsLegacy(text) ==
  /\ phase = "new"
  /\ \E self \in {ResumeParser(text)} :
       out' = [op |-> "_extract_skills_legacy", exc |-> "None", text |-> text, self |-> self,
               value |-> _extract_skills_legacy(self)]
  /\ phase' = "done"
  /\ UNCHANGED <<pipeline, scorer, breakdown, requests>>

\* profile = ResumeParser(text).parse()
Parse(text) ==
  /\ phase = "new"
  /\ \E self \in {ResumeParser(text)} :
       out' = [op |-> "parse", exc |-> "None", text |-> text, self |-> self,
               value |-> parse(self)]
  /\ phase' = "done"
  /\ UNCHANGED <<pipeline, scorer, breakdown, requests>>

\* ResumeParser(text)._extract_name()
ExtractName(text) ==
  /\ phase = "new"
  /\ \E self \in {ResumeParser(text)} :
       out' = [op |-> "_extract_name", exc |-> "None", text |-> text, self |-> self,
               value |-> _extract_name(self)]
  /\ phase' = "done"
  /\ UNCHANGED <<pipeline, scorer, breakdown, requests>>

\* a parser is built from the text and _extract_experience is called on it
ExtractExperience(text) ==
  /\ phase = "new"
  /\ \E self \in {ResumeParser(text)} :
       out' = [op |-> "_extract_experience", exc |-> "None", text |-> text, self |-> self,
               body |-> _section_lines(self, "experience"),
               value |-> _extract_experience(self)]
  /\ phase' = "done"
  /\ UNCHANGED <<pipeline, scorer, breakdown, requests>>

\* a parser is built from the text and _extract_education is called on it
ExtractEducation(text) ==
  /\ phase = "new"
  /\ \E self \in {ResumeParser(text)} :
       out' = [op |-> "_extract_education", exc |-> "None", text |-> text, self |-> self,
               body |-> _section_lines(self, "education"),
               value |-> _extract_education(self)]
  /\ phase' = "done"
  /\ UNCHANGED <<pipeline, scorer, breakdown, requests>>

\* _extract_education is entered on a parser built from the text: the body is read, and
\* the call returns at once when the body is empty
BeginEducation(text) ==
  /\ phase = "new"
  /\ \E self \in {ResumeParser(text)} :
       \E lines \in {_section_lines(self, "education")} :
         /\ out' = [op |-> "_extract_education while", exc |-> "None", text |-> text,
                    self |-> self, lines |-> lines, i |-> 0, education |-> <<>>]
         /\ phase' = IF lines = <<>> THEN "done" ELSE "education"
  /\ UNCHANGED <<pipeline, scorer, breakdown, requests>>

\* one pass of the loop: while i < len(lines)
EducationStep ==
  /\ phase = "education"
  /\ out.i < Len(out.lines)
  /\ \E r \in {education_step(out.lines, out.i, out.education)} :
       out' = [out EXCEPT !.i = r.i, !.education = r.education]
  /\ UNCHANGED <<phase, pipeline, scorer, breakdown, requests>>

\* the loop condition fails: return education
EducationReturn ==
  /\ phase = "education"
  /\ ~(out.i < Len(out.lines))
  /\ phase' = "done"
  /\ UNCHANGED <<pipeline, scorer, breakdown, out, requests>>

\* the pipeline: ResumePipeline(...) and then run(...)
Next ==
  \/ \E jd \in JobDescriptions, req \in RequiredLists, opt \in OptionalLists,
        use_llm \in BOOLEAN, probe \in ProbeReplies, reply \in ExtractionReplies :
       Construct(jd, req, opt, use_llm, probe, reply)
  \/ \E resume_text \in ResumeTexts,
        reply \in (IF pipeline.llm = "None" THEN {NoReply} ELSE AdviceReplies) :
       Run(resume_text, reply)

Spec == Init /\ [][Next]_vars

\* one pipeline without advisory client, run() called on it up to MaxRuns times
NextRepeat ==
  \/ \E jd \in JobDescriptions, req \in RequiredLists, opt \in OptionalLists :
       Construct(jd, req, opt, FALSE, NoReply, NoReply)
  \/ \E resume_text \in RepeatTexts : Run(resume_text, NoReply)
  \/ \E resume_text \in RepeatTexts : RunAgain(resume_text)

SpecRepeat == Init /\ [][NextRepeat]_vars

\* the scorer on its own: JobMatchScorer(...) and then one of its methods; and the
\* percentage arithmetic of score() on target sets larger than those enumerated
NextScorer ==
  \/ \E jd \in JobDescriptions, req \in RequiredLists, opt \in OptionalLists :
       NewScorer(jd, req, opt)
  \/ \E profile \in Profiles : Score(profile)
  \/ \E profile \in Profiles : MissingRequired(profile)
  \/ \E profile \in Profiles : MissingOptional(profile)
  \/ \E total \in TargetSizes : \E hits \in HitCounts(total) : Coverage(hits, total)

SpecScorer == Init /\ [][NextScorer]_vars

\* canonicalize_skill on its own
NextCanon == \E skill \in SkillStrings : Canonicalize(skill)

SpecCanon == Init /\ [][NextCanon]_vars

\* a MatchBreakdown on its own: built, its fields assigned, overall_score read
NextBreakdown ==
  \/ \E rc \in PctValues, oc \in PctValues, ea \in PctValues : NewBreakdown(rc, oc, ea)
  \/ \E field \in {"required_coverage", "optional_coverage", "experience_alignment"},
        v \in PctValues : SetAttr(field, v)
  \/ OverallScore

SpecBreakdown == Init /\ [][NextBreakdown]_vars

\* the data classes on their own
NextModels ==
  \/ \E skills \in SkillSequences : NormalizedSkills(skills)
  \/ \E self \in Contacts, other \in Contacts : Merge(self, other)

SpecModels == Init /\ [][NextModels]_vars

\* the parser on its own: one call on a line or on a text
NextParser ==
  \/ \E line \in ClassifyLines : ClassifyLine(line)
  \/ \E text \in ParserTexts : NewParser(text)
  \/ \E text \in ParserTexts : ExtractSkills(text)
  \/ \E text \in ParserTexts : ExtractSkillsLegacy(text)
  \/ \E text \in ParserTexts : Parse(text)

SpecParser == Init /\ [][NextParser]_vars

\* the contact extractors on the head of a resume
NextHead == \E text \in HeadTexts : ExtractName(text)

SpecHead == Init /\ [][NextHead]_vars

NextSections ==
  \/ \E text \in ExperienceTexts : ExtractExperience(text)
  \/ \E text \in EducationTexts : ExtractEducation(text)

SpecSections == Init /\ [][NextSections]_vars

NextEducation ==
  \/ \E text \in EducationTexts : BeginEducation(text)
  \/ EducationStep
  \/ EducationReturn

\* the loop runs in the thread of the caller and makes no call that blocks, so a pass or
\* the return that can be made is made
SpecEducation ==
  Init /\ [][NextEducation]_vars /\ WF_vars(EducationStep) /\ WF_vars(EducationReturn)

----------------------------------------------------------------------------
(* Properties *)

\* the replies with which the advisory request fails: no connection, no answer in time,
\* an error status, or an answer that is not the expected JSON object with a text
ConnectionFailures == {"refused", "timeout", "read_timeout", "http_error"}
MalformedReply(reply) ==
  reply.kind \in {"not_json", "not_object"} \/ (reply.kind = "object" /\ reply.text.isNone)

\* C1: with an advisory client attached, run() returns the heuristic recommendations
\* whenever the recommendation request fails (timeout, connection refused, malformed
\* response); the failure never reaches the caller.
C1_RunNeverPropagates ==
  (/\ out.op = "run"
   /\ pipeline.llm = "client"
   /\ (out.reply.kind \in ConnectionFailures \/ MalformedReply(out.reply)))
  => /\ out.exc = "None"
     /\ out.value.recommendations
          = _heuristic_recommendations(scorer, out.profile, out.value.breakdown)

\* C2: ResumePipeline(..., use_llm=True) never fails because of connectivity: when the
\* probe fails, or the probe succeeds and the skill-extraction request cannot connect or
\* times out, construction completes and the scorer is the one the local path builds from
\* the caller's arguments; when the probe fails, llm is None.
C2_ConstructNeverFails ==
  (/\ out.op = "ResumePipeline"
   /\ out.use_llm
   /\ (out.probe.kind \in ConnectionFailures \/ out.reply.kind \in ConnectionFailures))
  => /\ out.exc = "None"
     /\ phase = "ready"
     /\ scorer = JobMatchScorer(out.job_description, out.required_skills, out.optional_skills)
     /\ (out.probe.kind \in ConnectionFailures => pipeline.llm = "None")

\* what the claims say of skills, written from the synonym table itself
Distance(a, b) == IF a >= b THEN a - b ELSE b - a

\* v hundredths is n / d as a percentage rounded to 2 decimals, and 0 when d is 0
IsPercentOf(v, n, d) ==
  IF d = 0 THEN v = 0 ELSE 2 * Distance(v * d, 10000 * n) <= d

\* the canonical term of a raw skill: that of the table entry listing its trimmed
\* lower-case form as an alias, else that form
Canon(skill) ==
  LET low == strip(lower(skill))
      listing == {k \in 1..Len(SKILL_SYNONYMS) : low \in SKILL_SYNONYMS[k][2]}
  IN  IF listing = {} THEN low ELSE SKILL_SYNONYMS[CHOOSE k \in listing : TRUE][1]

CanonSet(skills) == {Canon(x) : x \in skills}

\* the canonical skills of a candidate: blanks do not count
CandidateCanon(profile) ==
  CanonSet({x \in Range(profile.skills) : strip(x) # <<>>})

\* C3: score() returns required_coverage = 100 * |C \cap R| / |R| rounded to 2 decimals
\* (0 when R is empty) for C the canonical candidate skills and R the canonical required
\* skills, and optional_coverage likewise; skills that differ by case, surrounding
\* whitespace or a known synonym are the same skill: a candidate with JS and K8s covers
\* JavaScript and Kubernetes fully.
C3_CoverageIsCanonicalOverlap ==
  out.op = "score" =>
    LET C == CandidateCanon(out.profile)
        R == CanonSet(scorer.required_skills)
        O == CanonSet(scorer.optional_skills)
    IN  /\ out.exc = "None"
        /\ IsPercentOf(out.value.required_coverage, Cardinality(C \cap R), Cardinality(R))
        /\ IsPercentOf(out.value.optional_coverage, Cardinality(C \cap O), Cardinality(O))
        /\ (/\ out.profile.skills = <<<<"J","S">>, <<"K","8","s">>>>
            /\ scorer.required_skills = {<<"j","a","v","a","s","c","r","i","p","t">>, <<"j","s">>, <<"k","u","b","e","r","n","e","t","e","s">>})
           => out.value.required_coverage = 10000

\* a candidate listing JS and K8s is scored against JavaScript, js and Kubernetes
C3_Witness ==
  /\ out.op = "score"
  /\ out.profile.skills = <<<<"J","S">>, <<"K","8","s">>>>
  /\ scorer.required_skills = {<<"j","a","v","a","s","c","r","i","p","t">>, <<"j","s">>, <<"k","u","b","e","r","n","e","t","e","s">>}
  /\ out.value.required_coverage = 10000

WeightedSum(self) ==
  (6 * self.required_coverage) + (2 * self.optional_coverage) + (2 * self.experience_alignment)

\* overall_score is the weighted sum of the current components rounded to 2 decimals,
\* with the three examples of the claim
OverallIsDerived ==
  /\ out.self = breakdown
  /\ Distance(10 * out.value, WeightedSum(out.self)) <= 5
  /\ out.self = MatchBreakdown(10000, 10000, 10000) => out.value = 10000
  /\ out.self = MatchBreakdown(5000, 5000, 5000) => out.value = 5000
  /\ out.self = MatchBreakdown(0, 0, 0) => out.value = 0

\* C4 as stated: overall_score is round(0.6*required_coverage + 0.2*optional_coverage
\* + 0.2*experience_alignment, 2) of the current components, and it is 0 exactly when
\* all three components are 0.
C4_ZeroExactlyWhenAllZero ==
  out.op = "overall_score" =>
    /\ OverallIsDerived
    /\ out.value = 0 <=> out.self = MatchBreakdown(0, 0, 0)

\* C4: overall_score is round(0.6*required_coverage + 0.2*optional_coverage
\* + 0.2*experience_alignment, 2) of the current components; it is 0 when all three are
\* 0, and for components of two decimals it is 0 exactly when required_coverage is 0 and
\* optional_coverage + experience_alignment is at most 0.02.
C4_OverallScoreDerived ==
  out.op = "overall_score" =>
    /\ OverallIsDerived
    /\ out.value = 0 <=> (/\ out.self.required_coverage = 0
                          /\ out.self.optional_coverage + out.self.experience_alignment <= 2)

\* overall_score reads 0.0 for a breakdown whose optional_coverage is 0.02
C4_Witness ==
  /\ out.op = "overall_score"
  /\ out.self = MatchBreakdown(0, 2, 0)
  /\ out.value = 0

\* C5: canonicalize_skill maps every alias of the table (lower-cased, trimmed) to its one
\* canonical term, every canonical term to itself and every other string to its
\* lower-cased trimmed form; no alias belongs to two canonicals or is a canonical key,
\* and canonicalizing twice gives what canonicalizing once gives.
C5_CanonicalizeByTable ==
  out.op = "canonicalize_skill" =>
    LET low == strip(lower(out.skill))
        N == 1..Len(SKILL_SYNONYMS)
    IN  /\ \A k \in N : low \in SKILL_SYNONYMS[k][2] => out.value = SKILL_SYNONYMS[k][1]
        /\ \A k \in N : low = SKILL_SYNONYMS[k][1] => out.value = low
        /\ (\A k \in N : low \notin SKILL_SYNONYMS[k][2]) => out.value = low
        /\ \A k, l \in N : k # l => /\ SKILL_SYNONYMS[k][2] \cap SKILL_SYNONYMS[l][2] = {}
                                    /\ SKILL_SYNONYMS[k][1] # SKILL_SYNONYMS[l][1]
        /\ \A k, l \in N : SKILL_SYNONYMS[k][1] \notin SKILL_SYNONYMS[l][2]
        /\ canonicalize_skill(out.value) = out.value

\* the padded, capitalized alias " Js \t " is canonicalized to javascript
C5_Witness ==
  /\ out.op = "canonicalize_skill"
  /\ out.skill = <<" ","J","s","\t"," ">>
  /\ out.value = <<"j","a","v","a","s","c","r","i","p","t">>

\* the text of an experience entry that is searched, lower-cased
EntryText(exp) == lower(exp.title \o <<" ">> \o exp.company \o <<" ">> \o exp.description)

\* the spellings of a canonical required skill: itself, its aliases in the table, and the
\* raw required strings with that canonical term
Spellings(r, raw) ==
  {r} \cup UNION {SKILL_SYNONYMS[k][2] : k \in {j \in 1..Len(SKILL_SYNONYMS) : SKILL_SYNONYMS[j][1] = r}}
      \cup {x \in raw : Canon(x) = r}

\* C6: experience_alignment = 100 * |F| / |R| rounded to 2 decimals, F being the canonical
\* required skills of which some spelling occurs, case-insensitively, in the text of at
\* least one experience entry; it is 0 without experience entries or with R empty,
\* whatever the candidate's skills are; one entry mentioning Python and Docker against
\* required Python, Docker, AWS gives 66.67.
C6_ExperienceAlignment ==
  out.op = "score" =>
    LET R == CanonSet(scorer.required_skills)
        exps == out.profile.experiences
        F == {r \in R : \E k \in 1..Len(exps) :
                          \E form \in Spellings(r, scorer.required_skills) :
                            contains(EntryText(exps[k]), form)}
        ea == out.value.experience_alignment
    IN  /\ IsPercentOf(ea, Cardinality(F), Cardinality(R))
        /\ (exps = <<>> \/ R = {}) => ea = 0
        /\ (/\ exps = <<ExperienceEntries[1]>>
            /\ scorer.required_skills = {<<"p","y","t","h","o","n">>, <<"d","o","c","k","e","r">>, <<"a","w","s">>})
           => ea = 6667

\* a candidate with no skills and the one entry mentioning Python and Docker is scored
\* against Python, Docker, AWS
C6_Witness ==
  /\ out.op = "score"
  /\ out.profile.skills = <<>>
  /\ out.profile.experiences = <<ExperienceEntries[1]>>
  /\ scorer.required_skills = {<<"p","y","t","h","o","n">>, <<"d","o","c","k","e","r">>, <<"a","w","s">>}
  /\ out.value.experience_alignment = 6667

\* missing_required / missing_optional are the canonical target set minus the canonical
\* candidate set, and the sizes add up
MissingIsDifference ==
  /\ out.op = "missing_required" =>
       LET C == CandidateCanon(out.profile)
           R == CanonSet(scorer.required_skills)
       IN  /\ out.value = R \ C
           /\ Cardinality(C \cap R) + Cardinality(out.value) = Cardinality(R)
           /\ R # {} => (score(scorer, out.profile).value.required_coverage = 10000
                           <=> out.value = {})
  /\ out.op = "missing_optional" =>
       LET C == CandidateCanon(out.profile)
           O == CanonSet(scorer.optional_skills)
       IN  /\ out.value = O \ C
           /\ Cardinality(C \cap O) + Cardinality(out.value) = Cardinality(O)
           /\ O # {} => (score(scorer, out.profile).value.optional_coverage = 10000
                           <=> out.value = {})

\* C7 as stated: missing_required is the canonical required set minus the canonical
\* candidate set, |hits| + |missing_required| = |canonical required set|, and for every
\* non-empty required set required_coverage == 100 if and only if nothing is missing
\* (likewise for optional).
C7_FullCoverageIffNothingMissing ==
  /\ MissingIsDifference
  /\ out.op = "coverage" => (out.value = 10000 <=> out.total - out.hits = 0)

\* C7: missing_required is the canonical required set minus the canonical candidate set
\* and |hits| + |missing_required| = |canonical required set|; required_coverage is 100
\* whenever nothing is missing, and for a non-empty required set of fewer than 20000
\* canonical skills it is 100 only if nothing is missing (likewise for optional).
C7_MissingConsistentWithScore ==
  /\ MissingIsDifference
  /\ out.op = "coverage" =>
       /\ out.exc = "None"
       /\ out.hits = out.total => out.value = 10000
       /\ out.total < 20000 => (out.value = 10000 <=> out.total - out.hits = 0)

\* js is given twice in the required list, under two spellings, and the candidate has
\* JS and K8s: nothing is missing
C7_Witness ==
  /\ out.op = "missing_required"
  /\ scorer.required_skills = {<<"j","a","v","a","s","c","r","i","p","t">>, <<"j","s">>, <<"k","u","b","e","r","n","e","t","e","s">>}
  /\ out.profile.skills = <<<<"J","S">>, <<"K","8","s">>>>
  /\ out.value = {}

\* C8: the required skills are extracted from the job description only when no explicit
\* required list is given; with an explicit list, an empty one included, the required
\* set is the normalization of that list (lower-cased, trimmed, blanks dropped).
C8_ExplicitListDecides ==
  out.op = "JobMatchScorer" =>
    scorer.required_skills =
      IF out.required_skills.isNone
      THEN _extract_skills(out.job_description)
      ELSE {strip(lower(x)) : x \in {y \in Range(out.required_skills.v) : strip(y) # <<>>}}

\* C9: for every job description, every explicit list and every profile, the empty ones
\* included, score(), missing_required() and missing_optional() return without raising;
\* the three components and overall_score lie in [0, 100]; an empty target set gives a
\* component of 0.
C9_ScoringNeverRaises ==
  /\ out.op \in {"score", "missing_required", "missing_optional"} => out.exc = "None"
  /\ out.op = "score" =>
       /\ out.value.required_coverage \in 0..10000
       /\ out.value.optional_coverage \in 0..10000
       /\ out.value.experience_alignment \in 0..10000
       /\ overall_score(out.value) \in 0..10000
       /\ scorer.required_skills = {} =>
            (out.value.required_coverage = 0 /\ out.value.experience_alignment = 0)
       /\ scorer.optional_skills = {} => out.value.optional_coverage = 0

\* a profile with experience entries is scored against an empty job description and
\* all-blank lists: both target sets are empty
C9_Witness ==
  /\ out.op = "score"
  /\ out.exc = "None"
  /\ scorer = [job_description |-> <<>>, required_skills |-> {}, optional_skills |-> {}]
  /\ out.profile.experiences # <<>>
  /\ out.value = MatchBreakdown(0, 0, 0)

HasPrefix(s, prefix) == Len(s) >= Len(prefix) /\ SubSeq(s, 1, Len(prefix)) = prefix

\* which of the four messages a recommendation is
MessageKind(m) ==
  IF m = MSG_ALIGNED THEN "aligned"
  ELSE IF m = MSG_EXPERIENCE THEN "experience"
  ELSE IF HasPrefix(m, MSG_REQUIRED) THEN "required"
  ELSE IF HasPrefix(m, MSG_OPTIONAL) THEN "optional"
  ELSE "other"

\* a run whose recommendations are the heuristic ones: no advisory client, no connection
\* to the service, or an answer without text
HeuristicRun ==
  /\ out.op = "run"
  /\ out.exc = "None"
  /\ \/ out.reply = NoReply
     \/ out.reply.kind \in ConnectionFailures
     \/ (out.reply.kind = "object" /\ ~out.reply.text.isNone /\ strip(out.reply.text.v) = <<>>)

\* C10: the heuristic recommendation list is never empty; it contains the well-aligned
\* message iff missing_required is empty, missing_optional is empty and
\* experience_alignment >= 70, and then nothing else; otherwise it holds, in this order,
\* the missing-required, the missing-optional and the experience message, each present
\* exactly when its condition holds.
C10_HeuristicMessages ==
  HeuristicRun =>
    LET recs  == out.value.recommendations
        kinds == [i \in 1..Len(recs) |-> MessageKind(recs[i])]
        mr    == missing_required(scorer, out.profile)
        mo    == missing_optional(scorer, out.profile)
        low   == out.value.breakdown.experience_alignment < 7000
        aligned == mr = {} /\ mo = {} /\ ~low
    IN  /\ recs # <<>>
        /\ (\E i \in 1..Len(recs) : recs[i] = MSG_ALIGNED) <=> aligned
        /\ aligned => recs = <<MSG_ALIGNED>>
        /\ ~aligned =>
             kinds = (IF mr # {} THEN <<"required">> ELSE <<>>)
                     \o (IF mo # {} THEN <<"optional">> ELSE <<>>)
                     \o (IF low THEN <<"experience">> ELSE <<>>)

\* a run without advisory client finds nothing missing and the required skills in the
\* experience entries
C10_Witness ==
  /\ out.op = "run"
  /\ pipeline.llm = "None"
  /\ scorer.required_skills # {}
  /\ out.value.breakdown.experience_alignment >= 7000
  /\ out.value.recommendations = <<MSG_ALIGNED>>

\* the elements of a finite set of str in ascending order
Ascending(S) ==
  CHOOSE q \in [1..Cardinality(S) -> S] :
    \A i, j \in 1..Cardinality(S) : i < j => str_lt(q[i], q[j])

\* the names written one after the other, ", " between two of them
RECURSIVE CommaList(_)
CommaList(names) ==
  IF names = <<>> THEN <<>>
  ELSE IF Len(names) = 1 THEN names[1]
  ELSE names[1] \o <<",", " ">> \o CommaList(Tail(names))

\* the names a missing-skills message lists after its fixed opening: the text between
\* the opening and the final "." cut at every ", "
RECURSIVE NamesIn(_, _)
NamesIn(text, cur) ==
  IF text = <<>> THEN {cur}
  ELSE IF Len(text) >= 2 /\ text[1] = "," /\ text[2] = " "
       THEN {cur} \cup NamesIn(SubSeq(text, 3, Len(text)), <<>>)
  ELSE NamesIn(Tail(text), Append(cur, text[1]))

\* C11: when a canonical required skill is absent from the profile's canonical skills,
\* the list run() returns without advisory client has a message that names every missing
\* required skill, title-cased and in sorted order, and names no required skill the
\* profile has, one it lists under a synonym included.
C11_MissingRequiredNamed ==
  (out.op = "run" /\ pipeline.llm = "None") =>
    LET C == CandidateCanon(out.profile)
        R == CanonSet(scorer.required_skills)
        M == Ascending(R \ C)
        recs == out.value.recommendations
        expected == MSG_REQUIRED \o CommaList([i \in 1..Len(M) |-> title(M[i])]) \o <<".">>
    IN  /\ out.exc = "None"
        /\ R \ C # {} =>
             /\ \E i \in 1..Len(recs) : recs[i] = expected
             /\ \A i \in 1..Len(recs) :
                  HasPrefix(recs[i], MSG_REQUIRED) =>
                    LET named == NamesIn(SubSeq(recs[i], Len(MSG_REQUIRED) + 1, Len(recs[i]) - 1), <<>>)
                    IN  /\ named = {title(r) : r \in R \ C}
                        /\ named \cap {title(r) : r \in R \cap C} = {}

\* JavaScript, js and Kubernetes are required, the candidate lists JS: the message names
\* Kubernetes alone
C11_Witness ==
  /\ out.op = "run"
  /\ pipeline.llm = "None"
  /\ scorer.required_skills = {<<"j","a","v","a","s","c","r","i","p","t">>, <<"j","s">>, <<"k","u","b","e","r","n","e","t","e","s">>}
  /\ out.profile.skills = <<<<"J","S">>>>
  /\ out.value.recommendations[1] = MSG_REQUIRED \o <<"K","u","b","e","r","n","e","t","e","s",".">>

\* C13: normalized_skills() returns the strictly ascending sequence (sorted, no
\* duplicates) of the lower-cased trimmed non-blank entries of skills, and a profile
\* whose skills are that result returns the same result.
C13_NormalizedSkills ==
  out.op = "normalized_skills" =>
    LET skills == out.self.skills
        kept == {strip(lower(skills[i])) : i \in {j \in 1..Len(skills) : strip(skills[j]) # <<>>}}
    IN  /\ out.exc = "None"
        /\ Range(out.value) = kept
        /\ \A i, j \in 1..Len(out.value) : i < j => str_lt(out.value[i], out.value[j])
        /\ normalized_skills(CandidateProfile(<<>>, out.value, <<>>)) = out.value

\* two spellings of python give the one entry python, after go
C13_Witness ==
  /\ out.op = "normalized_skills"
  /\ out.self.skills = <<<<" ","P","Y","T","H","O","N">>, <<"p","y","t","h","o","n"," ">>, <<"G","o">>>>
  /\ out.value = <<<<"g","o">>, <<"p","y","t","h","o","n">>>>

\* the first non-blank of the trimmed values, the empty str when there is none
FirstNonBlank(values) ==
  IF \E i \in 1..Len(values) : strip(values[i]) # <<>>
  THEN strip(values[CHOOSE i \in 1..Len(values) :
                      /\ strip(values[i]) # <<>>
                      /\ \A j \in 1..(i - 1) : strip(values[j]) = <<>>])
  ELSE <<>>

ContactFields == {"name", "email", "phone", "location"}

\* C14: merge returns a new instance whose every field is self's trimmed value when that
\* is non-blank, else other's trimmed value; self and other are left unchanged,
\* a.merge(a) is the trimmed a, and a.merge(b).merge(c) == a.merge(b.merge(c)).
C14_MergeFieldwise ==
  out.op = "merge" =>
    LET a == out.args[1]
        b == out.args[2]
    IN  /\ out.exc = "None"
        /\ DOMAIN out.value = ContactFields
        /\ \A f \in ContactFields : out.value[f] = FirstNonBlank(<<a[f], b[f]>>)
        /\ out.self = a /\ out.other = b
        /\ (a = b => \A f \in ContactFields : out.value[f] = strip(a[f]))
        /\ \A c \in Contacts :
             /\ merge(out.value, c).value = merge(a, merge(b, c).value).value
             /\ \A f \in ContactFields :
                  merge(out.value, c).value[f] = FirstNonBlank(<<a[f], b[f], c[f]>>)

\* self has a blank name and a padded email, other a padded name: the result takes the
\* name from other and the email from self, both trimmed
C14_Witness ==
  /\ out.op = "merge"
  /\ out.args[1].name = <<" "," ">>
  /\ out.args[2].name = <<" ","B","o","b"," ">>
  /\ out.args[1].email # <<>> /\ strip(out.args[1].email) # out.args[1].email
  /\ out.value.name = <<"B","o","b">>
  /\ out.value.email = strip(out.args[1].email)

\* how many of the requests of a call went to the given endpoint
CountOf(endpoint, reqs) == Cardinality({i \in 1..Len(reqs) : reqs[i] = endpoint})

\* C15: no advisory request is retried: a run() issues at most one recommendation
\* request, and none after that request has failed, before the heuristic recommendations
\* are returned; construction issues at most one probe and at most one skill-extraction
\* request.
C15_NoRetry ==
  /\ out.op = "run" =>
       /\ CountOf("generate", requests) <= 1
       /\ Len(requests) = CountOf("generate", requests)
       /\ (pipeline.llm = "None" => requests = <<>>)
       /\ (out.reply.kind \in ConnectionFailures =>
             /\ requests = <<"generate">>
             /\ out.exc = "None"
             /\ out.value.recommendations
                  = _heuristic_recommendations(scorer, out.profile, out.value.breakdown))
  /\ out.op = "ResumePipeline" =>
       /\ CountOf("tags", requests) <= 1
       /\ CountOf("generate", requests) <= 1
       /\ Len(requests) = CountOf("tags", requests) + CountOf("generate", requests)
       /\ (~out.use_llm => requests = <<>>)

\* the recommendation request of a run times out: it was the only request of the run
C15_Witness ==
  /\ out.op = "run"
  /\ out.reply.kind = "timeout"
  /\ requests = <<"generate">>
  /\ out.exc = "None"
  /\ out.value.recommendations # <<>>


\* a step taken by a constructed pipeline changes neither scorer nor pipeline, and what it
\* returns is what every earlier call with the same text returned
RepeatableStep ==
  phase \in {"ready", "done"} =>
    /\ scorer' = scorer
    /\ pipeline' = pipeline
    /\ \A e \in out'.earlier :
         e.text = out'.text => (e.exc = out'.exc /\ e.value = out'.value)

Blank(text) == \A i \in 1..Len(text) : text[i] \in Whitespace

\* the profile CandidateProfile() makes: empty strings and empty lists
EmptyProfile ==
  [contact |-> [name |-> <<>>, email |-> <<>>, phone |-> <<>>, location |-> <<>>],
   summary |-> <<>>, skills |-> <<>>, experiences |-> <<>>,
   education |-> <<>>, certifications |-> <<>>, achievements |-> <<>>]

\* the collection of the profile that the section of the name fills
CollectionOf(profile, name) ==
  CASE name = "skills" -> profile.skills
    [] name = "experience" -> profile.experiences
    [] name = "education" -> profile.education
    [] name = "certifications" -> profile.certifications
    [] name = "achievements" -> profile.achievements

\* no line of the parser is a header of the section; for skills, in addition, no line
\* starts with "skills" or "technologies", the words the fallback looks for
SectionAbsent(self, name) ==
  /\ \A i \in 1..Len(self.lines) : _classify_line(self.lines[i]) # name
  /\ name = "skills" =>
       \A i \in 1..Len(self.lines) :
         /\ ~HasPrefix(lower(self.lines[i]), <<"s","k","i","l","l","s">>)
         /\ ~HasPrefix(lower(self.lines[i]), <<"t","e","c","h","n","o","l","o","g","i","e","s">>)

HeaderHits(self, name) ==
  {i \in 0..(Len(self.lines) - 1) : _classify_line(self.lines[i + 1]) = name}

\* the indices of the lines that are headers of any section
AllHeaderHits(self) == UNION {HeaderHits(self, name) : name \in SectionNames}

\* the largest member of a non-empty set of numbers, and the smallest
Largest(S) == CHOOSE x \in S : \A y \in S : y <= x
Smallest(S) == CHOOSE x \in S : \A y \in S : x <= y

\* the index of the next header after index start, or the number of lines
NextHeaderOrEnd(self, start) ==
  IF \E h \in AllHeaderHits(self) : h > start
  THEN Smallest({h \in AllHeaderHits(self) : h > start})
  ELSE Len(self.lines)

\* the lines with an index strictly between start and end
LinesBetween(self, start, end) ==
  [k \in 1..(IF end - start - 1 > 0 THEN end - start - 1 ELSE 0) |-> self.lines[start + 1 + k]]

\* the line with index i lies in the body of some section
InSomeBody(self, i) ==
  \E name \in DOMAIN self._section_map :
    self._section_map[name][1] < i /\ i < self._section_map[name][2]

\* C17: for every canonical name with a header hit the stored range starts at the index of
\* the last header line of that name and ends at the index of the next header of any
\* section, or at the number of lines, and the body is the lines strictly between; a name
\* without header hit has no range and an empty body; the lines between an earlier header
\* of a repeated name and the header after it lie in no section body
C17_SectionRanges ==
  out.op = "ResumeParser" =>
    /\ DOMAIN out.self._section_map = {name \in SectionNames : HeaderHits(out.self, name) # {}}
    /\ \A name \in SectionNames :
         IF HeaderHits(out.self, name) = {} THEN out.bodies[name] = <<>>
         ELSE /\ out.self._section_map[name][1] = Largest(HeaderHits(out.self, name))
              /\ out.self._section_map[name][2] =
                   NextHeaderOrEnd(out.self, Largest(HeaderHits(out.self, name)))
              /\ out.bodies[name] =
                   LinesBetween(out.self, out.self._section_map[name][1],
                                out.self._section_map[name][2])
              /\ \A h \in HeaderHits(out.self, name) :
                   h # Largest(HeaderHits(out.self, name)) =>
                     \A i \in (h + 1)..(NextHeaderOrEnd(out.self, h) - 1) :
                       ~InSomeBody(out.self, i)

\* two skills headers with a line between them: the range of skills starts at the second
\* header, its body is empty, and the line between the headers lies in no body
C17_Witness ==
  /\ out.op = "ResumeParser"
  /\ out.self.lines = <<<<"S","k","i","l","l","s">>, <<"G","o"," ","|"," ","R","u","s","t"," ","-"," ","C">>, <<"S","k","i","l","l","s",":"," ","P","y","t","h","o","n",","," ","J","S">>>>
  /\ out.self._section_map["skills"] = <<2, 3>>
  /\ out.bodies["skills"] = <<>>
  /\ ~InSomeBody(out.self, 1)


\* the header aliases
Aliases == {_ALIAS_LOOKUP[k][1] : k \in 1..Len(_ALIAS_LOOKUP)}

\* s equals an alias, or starts with an alias that a colon, a space or a tab follows
AliasThenBreak(s) ==
  \E alias \in Aliases :
    /\ HasPrefix(s, alias)
    /\ Len(s) = Len(alias) \/ s[Len(alias) + 1] \in {":", " ", "\t"}

\* s is an alias followed by whitespace only, at least one character of it
AliasThenWhitespace(s) ==
  \E alias \in Aliases :
    /\ HasPrefix(s, alias)
    /\ Len(s) > Len(alias)
    /\ \A i \in (Len(alias) + 1)..Len(s) : s[i] \in Whitespace

\* the line in lower case without its trailing colons
LoweredUncoloned(line) ==
  LET low == lower(line)
      keep == {n \in 0..Len(low) : \A i \in (n + 1)..Len(low) : low[i] = ":"}
  IN  SubSeq(low, 1, CHOOSE n \in keep : \A m \in keep : n <= m)

\* C18 as stated: a line is a header if and only if, in lower case and without its
\* trailing colons, it equals an alias or starts with an alias that the end of the line, a
\* colon, a space or a tab follows
C18_HeaderIffAliasThenBreak ==
  out.op = "_classify_line" =>
    (out.value # "None" <=> AliasThenBreak(LoweredUncoloned(out.line)))

\* C18: a line is a header if and only if, in lower case and without its trailing colons,
\* it equals an alias, or starts with an alias that a colon, a space or a tab follows, or
\* is an alias followed by whitespace only (a no-break space before the colon); an alias
\* extended by further letters is no header, an alias followed by a space and words is one
C18_HeaderIffAliasThenBreakOrBlank ==
  out.op = "_classify_line" =>
    /\ out.value # "None" <=>
         \/ AliasThenBreak(LoweredUncoloned(out.line))
         \/ AliasThenWhitespace(LoweredUncoloned(out.line))
    /\ out.line = <<"S","k","i","l","l","s","e","t">> => out.value = "None"
    /\ out.line = <<"E","x","p","e","r","i","e","n","c","e"," ","w","i","t","h"," ","P","y","t","h","o","n">> => out.value = "experience"

\* "skills", a no-break space and a colon: a header, the alias being followed by neither
\* the end of the line nor a colon, a space or a tab
C18_Witness ==
  /\ out.op = "_classify_line"
  /\ out.line = <<"s", "k", "i", "l", "l", "s", "U+00A0", ":">>
  /\ out.value = "skills"
  /\ ~AliasThenBreak(LoweredUncoloned(out.line))


\* the body of the skills section: the lines strictly between its last header and the
\* header after it
SkillsBody(self) ==
  IF HeaderHits(self, "skills") = {} THEN <<>>
  ELSE LinesBetween(self, Largest(HeaderHits(self, "skills")),
                    NextHeaderOrEnd(self, Largest(HeaderHits(self, "skills"))))

\* the text after the first colon of the last skills header line, empty without a colon
SkillsHeaderItems(self) ==
  after_colon(self.lines[Largest(HeaderHits(self, "skills")) + 1])

TriggerLine(line) ==
  \/ HasPrefix(lower(line), <<"s","k","i","l","l","s">>)
  \/ HasPrefix(lower(line), <<"t","e","c","h","n","o","l","o","g","i","e","s">>)

\* the fragments of the lines from index i (counted from 1) on: of the text after the
\* first colon for a trigger line, of the whole line for any other
RECURSIVE FragmentsFrom(_, _)
FragmentsFrom(lines, i) ==
  IF i > Len(lines) THEN <<>>
  ELSE _split_list(IF TriggerLine(lines[i]) THEN after_colon(lines[i]) ELSE lines[i])
         \o FragmentsFrom(lines, i + 1)

\* C20: the legacy fallback returns nothing when no line starts with "skills" or
\* "technologies"; otherwise it returns the fragments after the colon of each such line and
\* the fragments of every other line from the first such line to the end of the document,
\* section headers and lines of other sections included
C20_LegacyCapturesToEnd ==
  out.op = "_extract_skills_legacy" =>
    out.value =
      IF \A i \in 1..Len(out.self.lines) : ~TriggerLine(out.self.lines[i]) THEN <<>>
      ELSE FragmentsFrom(out.self.lines,
                         Smallest({i \in 1..Len(out.self.lines) : TriggerLine(out.self.lines[i])}))

\* a trigger line that is no header, then the header and a line of another section: all
\* three lines give skills
C20_Witness ==
  /\ out.op = "_extract_skills_legacy"
  /\ out.self.lines = <<<<"S","k","i","l","l","s","e","t",":"," ","K","8","s",","," ",",">>, <<"E","x","p","e","r","i","e","n","c","e">>, <<"G","o"," ","|"," ","R","u","s","t"," ","-"," ","C">>>>
  /\ out.value = <<<<"K","8","s">>, <<"E","x","p","e","r","i","e","n","c","e">>, <<"G","o">>, <<"R","u","s","t">>, <<"C">>>>


\* the line is passed over by name extraction: it starts with a non-name pattern, or is a
\* section header, or holds an e-mail or telephone match and no two words of letters
NotAName(line) ==
  \/ \E k \in 1..Len(_NON_NAME_PATTERNS) : HasPrefix(lower(line), _NON_NAME_PATTERNS[k])
  \/ _classify_line(line) # "None"
  \/ /\ ~EMAIL_RE_search(line).isNone \/ ~PHONE_RE_search(line).isNone
     /\ ~two_words(line)

\* the indices, counted from 1, of the lines among the first 5 that name extraction keeps
NameCandidates(lines) == {i \in 1..Len(lines) : i <= 5 /\ ~NotAName(lines[i])}

\* C21: the name is the first of the first 5 lines that neither starts with a non-name
\* pattern, nor is a section header, nor is a pure contact line; when none of them
\* qualifies it is the first line of the document, and the empty string for a document
\* without lines; lines from the sixth on never matter
C21_NameFromFirstFive ==
  out.op = "_extract_name" =>
    out.value =
      IF NameCandidates(out.self.lines) # {}
      THEN out.self.lines[Smallest(NameCandidates(out.self.lines))]
      ELSE IF out.self.lines # <<>> THEN out.self.lines[1]
      ELSE <<>>

\* five lines that are no names and a sixth that would be one: the name is the first line
C21_Witness ==
  /\ out.op = "_extract_name"
  /\ Len(out.self.lines) = 6
  /\ NameCandidates(out.self.lines) = {}
  /\ ~NotAName(out.self.lines[6])
  /\ out.value = out.self.lines[1]
  /\ out.value # out.self.lines[6]

\* the indices, counted from 1, of the role-title trigger lines of a body
TriggerLines(body) == {i \in 1..Len(body) : _is_role_title(lower(body[i]))}

\* C22: scanning an experience body that holds a role-title trigger, the first trigger
\* closes nothing and every later one closes the buffer into an Experience, so that there
\* are as many Experiences as triggers and each has a trigger line as its title
C22_TriggerTitles ==
  (out.op = "_extract_experience" /\ TriggerLines(out.body) # {}) =>
    /\ Len(out.value) = Cardinality(TriggerLines(out.body))
    /\ \A k \in 1..Len(out.value) : _is_role_title(lower(out.value[k].title))

\* the number of body lines an education entry holds
EntryLines23(e) ==
  1 + (IF e.degree # <<>> THEN 1 ELSE 0) + (IF e.graduation # <<>> THEN 1 ELSE 0)

\* the index, counted from 1, of the body line the cursor is at when entry k is made
RECURSIVE CursorAt(_, _)
CursorAt(value, k) ==
  IF k = 1 THEN 1 ELSE CursorAt(value, k - 1) + EntryLines23(value[k - 1])

\* a line that holds a year from 1900 to 2099 as a word of its own
HoldsYear(line) == _looks_like_year(line)

\* a line that is such a year and nothing else
BareYear(line) == Len(line) = 4 /\ _looks_like_year(line)

\* the entries are made from the body as described, graduation(line) deciding whether the
\* line that follows an institution directly is taken as its graduation
EducationFollows(body, value, graduation(_)) ==
  /\ \A k \in 1..Len(value) :
       \E i \in {CursorAt(value, k)} :
         /\ i <= Len(body)
         /\ value[k].institution = body[i]
         /\ IF i + 1 <= Len(body) /\ _looks_like_degree(body[i + 1])
            THEN /\ value[k].degree = body[i + 1]
                 /\ value[k].graduation =
                      IF i + 2 <= Len(body) /\ HoldsYear(body[i + 2]) THEN body[i + 2] ELSE <<>>
            ELSE /\ value[k].degree = <<>>
                 /\ value[k].graduation =
                      IF i + 1 <= Len(body) /\ graduation(body[i + 1]) THEN body[i + 1] ELSE <<>>
  /\ CursorAt(value, Len(value) + 1) = Len(body) + 1

\* the body of the example
StateUniversityBody ==
  <<<<"S","t","a","t","e"," ","U","n","i","v","e","r","s","i","t","y">>,
    <<"B","a","c","h","e","l","o","r"," ","o","f"," ","S","c","i","e","n","c","e"," ","i","n"," ","C","o","m","p","u","t","e","r"," ","S","c","i","e","n","c","e">>,
    <<"2","0","1","8">>>>

\* C23 as stated: each entry takes the line at the cursor as institution, a following degree
\* line as degree and then a line holding a year as graduation; without a degree line the
\* following line is the graduation exactly when it is a bare year; the example body
\* yields one entry
C23_GraduationIsBareYear ==
  out.op = "_extract_education" =>
    /\ EducationFollows(out.body, out.value, BareYear)
    /\ out.body = StateUniversityBody => Len(out.value) = 1

\* C23: each entry takes the line at the cursor as institution, a following degree line as
\* degree and then a line holding a year as graduation; without a degree line the following
\* line is the graduation exactly when it holds a year from 1900 to 2099 as a word of its
\* own, whatever else it holds; the example body yields one entry
C23_GraduationHoldsYear ==
  out.op = "_extract_education" =>
    /\ EducationFollows(out.body, out.value, HoldsYear)
    /\ out.body = StateUniversityBody => Len(out.value) = 1

\* an institution followed by a phrase that holds a year: one entry, the phrase its graduation
C23_Witness ==
  /\ out.op = "_extract_education"
  /\ out.body = <<<<"S","t","a","t","e"," ","U","n","i","v","e","r","s","i","t","y">>, <<"C","l","a","s","s"," ","o","f"," ","2","0","1","9">>>>
  /\ out.value = <<Education(<<"S","t","a","t","e"," ","U","n","i","v","e","r","s","i","t","y">>, <<>>, <<"C","l","a","s","s"," ","o","f"," ","2","0","1","9">>)>>

\* the indices, counted from 1, of the lines that classify as a section header
HeaderLines(lines) == {i \in 1..Len(lines) : _classify_line(lines[i]) # "None"}

\* a line that holds an e-mail address or a telephone number
ContactLine(line) == ~EMAIL_RE_search(line).isNone \/ ~PHONE_RE_search(line).isNone

\* the lines before the earliest section header, those holding contact data left out
RECURSIVE EarlyLines(_, _)
EarlyLines(lines, i) ==
  IF i > Len(lines) \/ i \in HeaderLines(lines) THEN <<>>
  ELSE (IF ContactLine(lines[i]) THEN <<>> ELSE <<lines[i]>>) \o EarlyLines(lines, i + 1)

\* C24: the summary is the first 5 lines of the body of the summary section joined by
\* spaces when that body is not empty; otherwise it is the space-join of the first up to 3
\* lines before the earliest section header of the document, of any section and any
\* occurrence, that hold no contact data, so that no line at or after the earliest header
\* appears in it
C24_SummaryBeforeEarliestHeader ==
  out.op = "parse" =>
    out.value.summary =
      IF _section_lines(out.self, "summary") # <<>>
      THEN join(<<" ">>, first_lines(_section_lines(out.self, "summary"), 5))
      ELSE join(<<" ">>, first_lines(EarlyLines(out.self.lines, 1), 3))

\* the non-blank lines of an advisory text, each stripped of its leading markers
AdviceEntries(text) ==
  [i \in 1..Len(nonblank(splitlines(strip(text)))) |->
     lstrip_chars(strip(nonblank(splitlines(strip(text)))[i]), MARKERS)]

\* the members of a sequence of strings that are not empty
RECURSIVE NonEmptyOnes(_)
NonEmptyOnes(entries) ==
  IF entries = <<>> THEN <<>>
  ELSE (IF Head(entries) # <<>> THEN <<Head(entries)>> ELSE <<>>) \o NonEmptyOnes(Tail(entries))

\* C25: when the advisory service returns recommendation text, run() returns one
\* recommendation for each non-blank line of the text, stripped of its leading markers, a
\* line of markers only being dropped like a blank one, so that no recommendation is the
\* empty string; for a blank text it returns the heuristic recommendations
C25_NoEmptyRecommendation ==
  (out.op = "run" /\ out.exc = "None" /\ ~out.reply.text.isNone) =>
    /\ \A k \in 1..Len(out.value.recommendations) : out.value.recommendations[k] # <<>>
    /\ out.value.recommendations =
         IF NonEmptyOnes(AdviceEntries(out.reply.text.v)) # <<>>
         THEN NonEmptyOnes(AdviceEntries(out.reply.text.v))
         ELSE _heuristic_recommendations(scorer, out.profile, out.value.breakdown)

\* the construction sent a skill-extraction request
ExtractionAsked == out.op = "ResumePipeline" /\ Len(requests) >= 2

\* the service answered the extraction request with a response whose text is not of the
\* expected structure: the text is null, is no JSON document, is a JSON document other
\* than an object, or is an object whose entry is no list
UnparsableExtraction ==
  /\ ExtractionAsked
  /\ out.reply.kind = "object"
  /\ \/ out.reply.text.isNone
     \/ json_loads(out.reply.text).exc # "None"
     \/ ~json_loads(out.reply.text).isdict
     \/ out.reply.text.v = JSON_REQUIRED_STRING

\* the scorer holds the sets of a scorer built without advisory service from the
\* arguments of the construction
ScorerAsWithoutService ==
  /\ scorer.required_skills =
       JobMatchScorer(out.job_description, out.required_skills, out.optional_skills).required_skills
  /\ scorer.optional_skills =
       JobMatchScorer(out.job_description, out.required_skills, out.optional_skills).optional_skills

\* C26: skill extraction is requested only when use_llm is set, the probe succeeded and the
\* caller gave neither list, so that lists of the caller are never overridden; when the
\* extraction text cannot be parsed as the expected structure the construction succeeds
\* and the scorer holds the sets of a pipeline built with use_llm = False
C26_UnparsableExtractionIsEmpty ==
  /\ ExtractionAsked =>
       /\ out.use_llm
       /\ is_available(out.probe)
       /\ out.required_skills.isNone /\ out.optional_skills.isNone
  /\ (out.op = "ResumePipeline" /\ ~(out.required_skills.isNone /\ out.optional_skills.isNone)) =>
       /\ ~ExtractionAsked
       /\ out.exc = "None"
       /\ ScorerAsWithoutService
  /\ UnparsableExtraction =>
       /\ out.exc = "None"
       /\ phase = "ready"
       /\ ScorerAsWithoutService

\* the Experience e lists exactly the lines of chunk: title, then company when there is a
\* second line, then the remaining lines as description
ListsChunk(e, chunk) ==
  /\ chunk # <<>>
  /\ e.title = chunk[1]
  /\ e.company = (IF Len(chunk) >= 2 THEN chunk[2] ELSE <<>>)
  /\ e.description = join(<<" ">>, SubSeq(chunk, 3, Len(chunk)))

\* the Experiences of value, in order, list the lines of body, in order, none left out and
\* none twice
RECURSIVE ListsBody(_, _)
ListsBody(value, body) ==
  IF value = <<>> THEN body = <<>>
  ELSE \E n \in 1..Len(body) :
         /\ ListsChunk(Head(value), SubSeq(body, 1, n))
         /\ ListsBody(Tail(value), SubSeq(body, n + 1, Len(body)))

\* C27: the Experiences returned for an experience body list its lines exactly and in
\* order as titles, companies and description lines; every title is non-empty, and the
\* number of entries is at least 1 and at most the number of lines for a non-empty body
\* and 0 for the empty one
C27_ExperienceKeepsEveryLine ==
  out.op = "_extract_experience" =>
    /\ ListsBody(out.value, out.body)
    /\ \A k \in 1..Len(out.value) : out.value[k].title # <<>>
    /\ out.body # <<>> => Len(out.value) \in 1..Len(out.body)
    /\ out.body = <<>> <=> Len(out.value) = 0

\* four lines of which the second is a role title: two entries, the first a title alone,
\* the second with company and description
C27_Witness ==
  /\ out.op = "_extract_experience"
  /\ Len(out.body) = 4
  /\ Len(out.value) = 2
  /\ out.value[1].company = <<>>
  /\ out.value[2].title = out.body[2]
  /\ out.value[2].company = out.body[3]
  /\ out.value[2].description = out.body[4]

\* the fields of the entries that hold a line, entry by entry: institution, degree, graduation
RECURSIVE FieldsInOrder(_)
FieldsInOrder(education) ==
  IF education = <<>> THEN <<>>
  ELSE <<Head(education).institution>>
         \o (IF Head(education).degree # <<>> THEN <<Head(education).degree>> ELSE <<>>)
         \o (IF Head(education).graduation # <<>> THEN <<Head(education).graduation>> ELSE <<>>)
         \o FieldsInOrder(Tail(education))

\* a pass of the loop moves the cursor on by 1, 2 or 3 and not past the end of the body
CursorAdvances ==
  (phase = "education" /\ phase' = "education") =>
    /\ out'.i - out.i \in 1..3
    /\ out'.i <= Len(out.lines)

\* what the loop has made when it has returned: every line of the body in exactly one
\* field of one entry, in document order, and between ceil(n/3) and n entries for n lines
EducationReturned ==
  (out.op = "_extract_education while" /\ phase = "done") =>
    /\ FieldsInOrder(out.education) = out.lines
    /\ 3 * Len(out.education) >= Len(out.lines)
    /\ Len(out.education) <= Len(out.lines)
    /\ out.education = _extract_education(out.self)

\* C28: the education loop always terminates: each pass moves the cursor on by 1, 2 or 3,
\* never past the end of the body (so never past it by more than the last increment); when
\* it has returned, each body line is in exactly one field of exactly one entry in document
\* order, and a body of n lines has given between ceil(n/3) and n entries
C28_EducationLoopTerminates ==
  /\ [][CursorAdvances]_vars
  /\ []EducationReturned
  /\ (phase = "education") ~> (phase = "done")

\* a body of four lines read in two passes, of 3 lines and of 1: ceil(4/3) entries
C28_Witness ==
  /\ out.op = "_extract_education while"
  /\ phase = "done"
  /\ Len(out.lines) = 4
  /\ out.i = 4
  /\ Len(out.education) = 2
  /\ out.education[1].graduation # <<>>
  /\ out.education[1].degree # <<>>

\* the indices, counted from 0, of the body lines of a stored section
BodyIndices(self, name) ==
  (self._section_map[name][1] + 1)..(self._section_map[name][2] - 1)

C30_NoOptionalCapsAtEighty ==
  (out.op = "score" /\ out.exc = "None" /\ scorer.optional_skills = {}) =>
    /\ out.value.optional_coverage = 0
    /\ overall_score(out.value) <= 8000

\* no optional skills, every required skill covered and evidenced: the overall score is 80.0
C30_Witness ==
  /\ out.op = "score"
  /\ out.exc = "None"
  /\ scorer.optional_skills = {}
  /\ scorer.required_skills # {}
  /\ out.value.required_coverage = 10000
  /\ out.value.experience_alignment = 10000
  /\ overall_score(out.value) = 8000

====
